---- MODULE Spec2Model ----
(***************************************************************************)
(* A model of the MCPJungle gateway's catalog service: canonical naming    *)
(* (internal/service/mcp/util.go), tool registration, deregistration and   *)
(* enable/disable (internal/service/mcp tool service), the two proxy MCP   *)
(* servers, the in-memory tool-instance tracker and the tool-group engine  *)
(* that follows the catalog through the addition / deletion callbacks.     *)
(*                                                                         *)
(* Strings are sequences of one-character strings, so that merging and     *)
(* splitting canonical names is computed, character by character, the way  *)
(* the Go code computes it.                                                *)
(***************************************************************************)
EXTENDS Integers, Sequences, FiniteSets, TLC

(***************************************************************************)
(* Bounds of the model.                                                    *)
(***************************************************************************)
\* longest server name drawn as an input of the naming functions
MaxServerLen == 3
\* longest tool (or prompt) short name drawn as an input of the naming functions
MaxToolLen == 3

(***************************************************************************)
(* Characters.  One representative per class the code distinguishes:       *)
(* a letter, a digit, the hyphen, the underscore, and a character outside  *)
(* the class [a-zA-Z0-9_-].                                                *)
(***************************************************************************)
Letters == {"a", "b"}
Digits == {"1"}
ServerChars == {"a", "1", "-", "_", "/", "$"}
ToolChars == {"a", "_", "/"}

RECURSIVE StringsUpTo(_, _)
StringsUpTo(chars, n) ==
    IF n = 0 THEN {<<>>}
    ELSE LET shorter == StringsUpTo(chars, n - 1)
         IN  shorter \cup {Append(s, c) : s \in shorter, c \in chars}

(***************************************************************************)
(* Go's strings package, as far as util.go uses it.  Index is 1-based and  *)
(* 0 stands for Go's -1 (not found).                                       *)
(***************************************************************************)
OccursAt(s, sep, i) ==
    /\ i >= 1
    /\ i + Len(sep) - 1 <= Len(s)
    /\ SubSeq(s, i, i + Len(sep) - 1) = sep

RECURSIVE IndexFrom(_, _, _)
IndexFrom(s, sep, i) ==
    IF i + Len(sep) - 1 > Len(s) THEN 0
    ELSE IF SubSeq(s, i, i + Len(sep) - 1) = sep THEN i
    ELSE IndexFrom(s, sep, i + 1)

Index(s, sep) == IndexFrom(s, sep, 1)

Contains(s, sep) == Index(s, sep) > 0

HasSuffix(s, suffix) ==
    /\ Len(s) >= Len(suffix)
    /\ SubSeq(s, Len(s) - Len(suffix) + 1, Len(s)) = suffix

\* strings.Cut: slice around the first instance of sep
Cut(s, sep) ==
    LET i == Index(s, sep)
    IN  IF i > 0
        THEN <<SubSeq(s, 1, i - 1), SubSeq(s, i + Len(sep), Len(s)), TRUE>>
        ELSE <<s, <<>>, FALSE>>

(***************************************************************************)
(* util.go: canonical naming.                                              *)
(***************************************************************************)
serverToolNameSep == <<"_", "_">>
serverPromptNameSep == <<"_", "_">>

\* the regular expression ^[a-zA-Z0-9_-]+$
validServerName(name) ==
    /\ Len(name) >= 1
    /\ \A i \in 1..Len(name) : name[i] \in Letters \cup Digits \cup {"_", "-"}

\* a plausible slip: the trailing-underscore check is left out
validateServerName_NoSuffixCheck(name) ==
    IF name = <<>> THEN "empty"
    ELSE IF ~validServerName(name) THEN "regexp"
    ELSE IF Contains(name, serverToolNameSep) THEN "consecutive_underscores"
    ELSE "ok"

\* a plausible slip: the check for the separator inside the name is left out
validateServerName_NoSepCheck(name) ==
    IF name = <<>> THEN "empty"
    ELSE IF ~validServerName(name) THEN "regexp"
    ELSE IF HasSuffix(name, <<serverToolNameSep[1]>>) THEN "trailing_underscore"
    ELSE "ok"

\* "ok" stands for the nil error; every other value is the error returned
validateServerName(name) ==
    IF name = <<>> THEN "empty"
    ELSE IF ~validServerName(name) THEN "regexp"
    ELSE IF Contains(name, serverToolNameSep) THEN "consecutive_underscores"
    ELSE IF HasSuffix(name, <<serverToolNameSep[1]>>) THEN "trailing_underscore"
    ELSE "ok"

mergeServerToolNames(s, t) == s \o serverToolNameSep \o t

\* a plausible slip: cutting at the last separator instead of the first
RECURSIVE LastIndexFrom(_, _, _)
LastIndexFrom(s, sep, i) ==
    IF i < 1 THEN 0
    ELSE IF OccursAt(s, sep, i) THEN i
    ELSE LastIndexFrom(s, sep, i - 1)

splitServerToolName_LastSep(name) ==
    LET i == LastIndexFrom(name, serverToolNameSep, Len(name))
    IN  IF i > 0
        THEN <<SubSeq(name, 1, i - 1),
               SubSeq(name, i + Len(serverToolNameSep), Len(name)), TRUE>>
        ELSE <<name, <<>>, FALSE>>

splitServerToolName(name) == Cut(name, serverToolNameSep)

mergeServerPromptNames(s, p) == s \o serverPromptNameSep \o p

splitServerPromptName(name) == Cut(name, serverPromptNameSep)


(***************************************************************************)
(* The catalog: universe of inputs.                                        *)
(***************************************************************************)
\* most Tool rows the store holds, and so the longest tool list an upstream
\* MCP server answers ListTools with
MaxToolRows == 2

\* names offered to RegisterMcpServer; "a_" is one validateServerName rejects
\* ("a_" + "__" + "a" and "a" + "__" + "_a" are the same canonical name)
RegisterNames == {<<"a">>, <<"b">>, <<"a", "_">>}
\* short names an upstream gives its tools
ToolNames == {<<"a">>, <<"_", "a">>}
\* a tool an upstream lists: its short name, and whether the input schema stored
\* for it (json.Marshal, its error dropped) is JSON that json.Unmarshal reads back
UpstreamTools ==
    {[name |-> n, schema |-> TRUE] : n \in ToolNames} \cup {[name |-> <<"a">>, schema |-> FALSE]}
\* every list of tools an upstream may answer with, duplicates included
UpstreamToolLists == UNION {[1..n -> UpstreamTools] : n \in 0..MaxToolRows}

\* types.McpServerTransport
TransportStreamableHTTP == "streamable_http"
TransportStdio == "stdio"
TransportSSE == "sse"
Transports == {TransportStreamableHTTP, TransportStdio, TransportSSE}

\* types.SessionMode
SessionModeStateless == "stateless"
SessionModeStateful == "stateful"

\* what EnableTools / DisableTools are called with: bare server names
\* (registered or not) and canonical tool names
Entities ==
    RegisterNames \cup {mergeServerToolNames(s, t) : s \in {<<"a">>, <<"b">>}, t \in ToolNames}

\* tool groups: one group name, and the specs a group is created with
GroupNames == {"g"}
GroupSpecs ==
    { [included_tools |-> {}, included_servers |-> {<<"a">>}, excluded_tools |-> {}],
      [included_tools |-> {mergeServerToolNames(<<"b">>, <<"a">>),
                           mergeServerToolNames(<<"a">>, <<"_", "a">>)},
       included_servers |-> {<<"a">>},
       excluded_tools |-> {mergeServerToolNames(<<"a">>, <<"_", "a">>)}],
      [included_tools |-> {mergeServerToolNames(<<"a">>, <<"a">>),
                           mergeServerToolNames(<<"b">>, <<"_", "a">>)},
       included_servers |-> {},
       excluded_tools |-> {}] }

VARIABLES
    nm,                   \* the naming functions' inputs, the step applied last and its result
    dbServers,            \* store: McpServer rows, keyed by their unique name
    dbTools,              \* store: Tool rows in primary-key order
    mcpProxyServer,       \* tools the streamable-HTTP proxy MCP server exposes
    sseMcpProxyServer,    \* tools the SSE proxy MCP server exposes
    toolInstances,        \* MCPService.toolInstances (keys)
    toolAdditionCallback, \* MCPService.toolAdditionCallback
    toolDeletionCallback, \* MCPService.toolDeletionCallback
    groups,               \* store: ToolGroup rows, keyed by name
    groupServers,         \* the tool-group engine's MCP server per group: tools exposed
    lastOp,               \* the operation that ran last: its input, result and events
    sessions,             \* upstream sessions opened so far: server, mode, open or closed
    calls,                \* InvokeTool calls: each caller's position and locals
    muts,                 \* setToolsEnabled calls run step by step: position and locals
    config,               \* the stored ServerConfig singleton: initialized flag and mode
    users,                \* the stored User rows
    proc,                 \* the mcpjungle process run by the start command
    starts,               \* how many times the start command has run on this database
    clients,              \* the stored McpClient rows
    authOp,               \* the last user, client or proxy-access operation and its outcome
    registry,             \* the McpServer rows with their transport configuration
    response,             \* the last response of the servers and server_configs endpoints
    conn,                 \* the upstream session being opened: its context, clock and outcome
    subscribers           \* the callbacks handed to SetToolAdditionCallback / SetToolDeletionCallback so far

vars == <<nm, dbServers, dbTools, mcpProxyServer, sseMcpProxyServer, toolInstances,
          toolAdditionCallback, toolDeletionCallback, groups, groupServers, lastOp,
          sessions, calls, muts, config, users, proc, starts,
          clients, authOp, registry, response, conn, subscribers>>

\* the variables of InvokeTool
invokeVars == <<sessions, calls>>

\* the variables of the calls of setToolsEnabled that run concurrently
mutVars == <<muts>>

\* the variables of the start command and of the stored server configuration
startVars == <<config, users, proc, starts>>

\* the variables of the MCP clients and of the access operations
authVars == <<clients, authOp>>

\* the variables of the server records and of the endpoints that list them
registryVars == <<registry, response>>

\* the variable of the opening of an upstream session
connVars == <<conn>>

\* the callbacks registered so far
subscriberVars == <<subscribers>>

catalogVars == <<dbServers, dbTools, mcpProxyServer, sseMcpProxyServer, toolInstances,
                 toolAdditionCallback, toolDeletionCallback, groups, groupServers, lastOp>>

(***************************************************************************)
(* An operation works on a record w of everything it may change:           *)
(*   tools, http, sse, inst, gsrv : dbTools, the two proxies, the tracker, *)
(*                                  the group servers                      *)
(*   events   : the callbacks invoked so far, in order                     *)
(*   seen     : what each of those callbacks found when it was invoked     *)
(*   writes   : store writes that succeeded                                *)
(*   attempts : store writes attempted                                     *)
(***************************************************************************)
World ==
    [tools |-> dbTools, http |-> mcpProxyServer, sse |-> sseMcpProxyServer,
     inst |-> toolInstances, gsrv |-> groupServers,
     events |-> <<>>, seen |-> <<>>, writes |-> 0, attempts |-> 0]

\* a Tool row; ServerID is written as the name of the server row it refers to
\* (server rows are keyed by their unique name and tool rows never outlive them)
\* InputSchema is kept as the one thing read from it: whether it can be parsed
ToolRow(server, name, enabled, schema) ==
    [server |-> server, name |-> name, enabled |-> enabled, schema |-> schema]

CanonicalName(row) == mergeServerToolNames(row.server, row.name)

\* the canonical names of the rows a query returns, in row order
RECURSIVE CanonicalNamesOf(_, _)
CanonicalNamesOf(tools, server) ==
    IF tools = <<>> THEN <<>>
    ELSE IF Head(tools).server = server
         THEN <<CanonicalName(Head(tools))>> \o CanonicalNamesOf(Tail(tools), server)
         ELSE CanonicalNamesOf(Tail(tools), server)

SeqToSet(q) == {q[i] : i \in 1..Len(q)}

\* db.Where("server_id = ? AND name = ?").First: index of the first such row, 0 if none
RECURSIVE FirstToolFrom(_, _, _, _)
FirstToolFrom(tools, server, name, i) ==
    IF i > Len(tools) THEN 0
    ELSE IF tools[i].server = server /\ tools[i].name = name THEN i
    ELSE FirstToolFrom(tools, server, name, i + 1)

FirstTool(tools, server, name) == FirstToolFrom(tools, server, name, 1)

(***************************************************************************)
(* The tool-group engine, the subscriber of the catalog's change events.   *)
(***************************************************************************)
EnabledToolNames(tools) ==
    {CanonicalName(tools[i]) : i \in {j \in 1..Len(tools) : tools[j].enabled}}

EnabledToolsOfServers(tools, servers) ==
    {CanonicalName(tools[i]) :
        i \in {j \in 1..Len(tools) : tools[j].enabled /\ tools[j].server \in servers}}

EffectiveSet(spec, tools) ==
    ((spec.included_tools \cup EnabledToolsOfServers(tools, spec.included_servers))
        \ spec.excluded_tools) \cap EnabledToolNames(tools)

\* ItemAdded(name): every group whose spec includes the name adds it
handleToolAddition(w, name) ==
    [w EXCEPT !.gsrv = [g \in DOMAIN @ |->
        IF name \in EffectiveSet(groups[g], w.tools) THEN @[g] \cup {name} ELSE @[g]]]

\* ItemRemoved(names...): every group drops the names
handleToolDeletion(w, names) ==
    [w EXCEPT !.gsrv = [g \in DOMAIN @ |-> @[g] \ SeqToSet(names)]]

(***************************************************************************)
(* MCPService: tracker and callbacks.                                      *)
(***************************************************************************)
addToolInstance(w, name) == [w EXCEPT !.inst = @ \cup {name}]

deleteToolInstances(w, names) == [w EXCEPT !.inst = @ \ SeqToSet(names)]

\* what a callback finds for a name at the moment it is invoked: a row of that
\* name in the store, an enabled one, the name in either proxy and in the tracker
\* (GetToolInstance)
Observe(w, name) ==
    [stored  |-> \E i \in 1..Len(w.tools) : CanonicalName(w.tools[i]) = name,
     enabled |-> name \in EnabledToolNames(w.tools),
     http    |-> name \in w.http,
     sse     |-> name \in w.sse,
     inst    |-> name \in w.inst]

notifyToolDeletion(w, names) ==
    LET w1 == [w EXCEPT !.events = Append(@, <<"removed", names>>),
                        !.seen = Append(@, [i \in 1..Len(names) |-> Observe(w, names[i])])]
    IN  IF toolDeletionCallback = "groups" THEN handleToolDeletion(w1, names) ELSE w1

\* a plausible slip: the addition is not announced to the subscriber
notifyToolAddition_Silent(w, name) == w

\* the subscribers SetToolAdditionCallback installs: the tool-group engine, and
\* one that returns an error for the tools it rejects
AdditionCallbacks == {"groups", "failing"}
RejectedTools == {mergeServerToolNames(s, <<"a">>) : s \in {<<"a">>, <<"b">>}}

\* the subscribers SetToolDeletionCallback installs
DeletionCallbacks == {"groups", "audit"}

\* the error m.toolAdditionCallback(toolName) returns
toolAdditionCallbackError(name) == toolAdditionCallback = "failing" /\ name \in RejectedTools

\* the callback is invoked; an error it returns is logged and dropped
notifyToolAddition(w, name) ==
    LET w1 == [w EXCEPT !.events = Append(@, <<"added", name>>),
                        !.seen = Append(@, <<Observe(w, name)>>)]
    IN  IF toolAdditionCallback = "groups" THEN handleToolAddition(w1, name) ELSE w1

\* a plausible slip: the transport is not looked at when a tool is added
AddToolToProxy_AlwaysHTTP(w, transport, name) == [w EXCEPT !.http = @ \cup {name}]

\* server.MCPServer.AddTool / DeleteTools on the proxy that serves the transport
AddToolToProxy(w, transport, name) ==
    IF transport = TransportSSE
    THEN [w EXCEPT !.sse = @ \cup {name}]
    ELSE [w EXCEPT !.http = @ \cup {name}]

DeleteToolsFromProxy(w, transport, names) ==
    IF transport = TransportSSE
    THEN [w EXCEPT !.sse = @ \ SeqToSet(names)]
    ELSE [w EXCEPT !.http = @ \ SeqToSet(names)]

\* convertToolModelToMcpObject: fails when the row's input schema does not parse
convertToolModelToMcpObject(row) == row.schema

\* what an operation returns: the world it leaves, its result list, its error
Result(w, ret, err) == [w |-> w, ret |-> ret, err |-> err]

(***************************************************************************)
(* setToolsEnabled.  failAt numbers the store write (db.Save) that fails,  *)
(* 0 when none does.                                                       *)
(***************************************************************************)
\* db.Save(&tool): the row's enabled flag is written, unless this write is the failing one
SaveFails(w, failAt) == w.attempts + 1 = failAt

SaveTool(w, i, enabled) ==
    [w EXCEPT !.tools[i].enabled = enabled, !.writes = @ + 1, !.attempts = @ + 1]

\* a plausible slip: a disabled tool is dropped from the tracker but not from the proxy
ApplyTransition_DisableKeepsProxy(w, transport, name, enabled) ==
    IF enabled
    THEN notifyToolAddition(addToolInstance(AddToolToProxy(w, transport, name), name), name)
    ELSE notifyToolDeletion(deleteToolInstances(w, <<name>>), <<name>>)

\* enabling a tool whose row was saved stops with an error when the row cannot be
\* converted to an MCP tool
ConvertFails(w, i, enabled) == enabled /\ ~convertToolModelToMcpObject(w.tools[i])

\* the steps after a successful save of a transitioning tool (lines 227-258, 286-311)
ApplyTransition(w, transport, name, enabled) ==
    IF enabled
    THEN notifyToolAddition(addToolInstance(AddToolToProxy(w, transport, name), name), name)
    ELSE notifyToolDeletion(
            deleteToolInstances(DeleteToolsFromProxy(w, transport, <<name>>), <<name>>),
            <<name>>)

\* a plausible slip: the no-change shortcut is left out, so the row is saved and the
\* proxy, tracker and callback are driven again
setOneToolEnabled_NoShortcut(w, entity, serverName, toolName, enabled, failAt) ==
    IF serverName \notin DOMAIN dbServers THEN Result(w, <<>>, TRUE)
    ELSE LET i == FirstTool(w.tools, serverName, toolName)
         IN  IF i = 0 THEN Result(w, <<>>, TRUE)
             ELSE IF SaveFails(w, failAt)
                  THEN Result([w EXCEPT !.attempts = @ + 1], <<>>, TRUE)
             ELSE IF ConvertFails(w, i, enabled)
                  THEN Result(SaveTool(w, i, enabled), <<>>, TRUE)
             ELSE Result(ApplyTransition(SaveTool(w, i, enabled),
                                         dbServers[serverName].transport, entity, enabled),
                         <<entity>>, FALSE)

\* the entity is a canonical tool name (lines 205-261)
setOneToolEnabled(w, entity, serverName, toolName, enabled, failAt) ==
    IF serverName \notin DOMAIN dbServers THEN Result(w, <<>>, TRUE)
    ELSE LET i == FirstTool(w.tools, serverName, toolName)
         IN  IF i = 0 THEN Result(w, <<>>, TRUE)
             ELSE IF w.tools[i].enabled = enabled THEN Result(w, <<entity>>, FALSE)
             ELSE IF SaveFails(w, failAt)
                  THEN Result([w EXCEPT !.attempts = @ + 1], <<>>, TRUE)
             ELSE IF ConvertFails(w, i, enabled)
                  THEN Result(SaveTool(w, i, enabled), <<>>, TRUE)
             ELSE Result(ApplyTransition(SaveTool(w, i, enabled),
                                         dbServers[serverName].transport, entity, enabled),
                         <<entity>>, FALSE)

\* the loop over the server's tools (lines 275-316)
RECURSIVE setServerToolsLoop(_, _, _, _, _, _)
setServerToolsLoop(w, server, enabled, i, changedToolNames, failAt) ==
    IF i > Len(w.tools) THEN Result(w, changedToolNames, FALSE)
    ELSE IF w.tools[i].server # server
         THEN setServerToolsLoop(w, server, enabled, i + 1, changedToolNames, failAt)
    ELSE IF w.tools[i].enabled = enabled
         THEN setServerToolsLoop(w, server, enabled, i + 1, changedToolNames, failAt)
    ELSE IF SaveFails(w, failAt)
         THEN Result([w EXCEPT !.attempts = @ + 1], <<>>, TRUE)
    ELSE IF ConvertFails(w, i, enabled)
         THEN Result(SaveTool(w, i, enabled), <<>>, TRUE)
    ELSE LET canonicalToolName == mergeServerToolNames(server, w.tools[i].name)
             w1 == ApplyTransition(SaveTool(w, i, enabled),
                                   dbServers[server].transport, canonicalToolName, enabled)
         IN  setServerToolsLoop(w1, server, enabled, i + 1,
                                Append(changedToolNames, canonicalToolName), failAt)

\* a plausible slip: every tool of the server is listed, changed or not
setServerToolsEnabled_ListsAll(w, entity, enabled, failAt) ==
    IF entity \notin DOMAIN dbServers THEN Result(w, <<>>, TRUE)
    ELSE LET r == setServerToolsLoop(w, entity, enabled, 1, <<>>, failAt)
         IN  Result(r.w, IF r.err THEN <<>> ELSE CanonicalNamesOf(w.tools, entity), r.err)

\* the entity is a bare server name (lines 263-317)
setServerToolsEnabled(w, entity, enabled, failAt) ==
    IF entity \notin DOMAIN dbServers THEN Result(w, <<>>, TRUE)
    ELSE setServerToolsLoop(w, entity, enabled, 1, <<>>, failAt)

setToolsEnabled(w, entity, enabled, failAt) ==
    LET cut == splitServerToolName(entity)
    IN  IF cut[3]
        THEN setOneToolEnabled(w, entity, cut[1], cut[2], enabled, failAt)
        ELSE setServerToolsEnabled(w, entity, enabled, failAt)

(***************************************************************************)
(* registerServerTools.  failing is the set of positions in the upstream's *)
(* list whose db.Create fails.                                             *)
(***************************************************************************)
\* a plausible slip: a tool whose db.Create failed is exposed all the same
RECURSIVE registerToolsLoop_AddsUnpersisted(_, _, _, _, _, _)
registerToolsLoop_AddsUnpersisted(w, server, transport, upstream, i, failing) ==
    IF i > Len(upstream) THEN Result(w, <<>>, FALSE)
    ELSE LET canonicalToolName == mergeServerToolNames(server, upstream[i].name)
             w1 == IF i \in failing
                   THEN [w EXCEPT !.attempts = @ + 1]
                   ELSE [w EXCEPT !.tools = Append(@, ToolRow(server, upstream[i].name, TRUE,
                                                               upstream[i].schema)),
                                  !.writes = @ + 1, !.attempts = @ + 1]
             w2 == notifyToolAddition(
                       addToolInstance(AddToolToProxy(w1, transport, canonicalToolName),
                                       canonicalToolName),
                       canonicalToolName)
         IN  registerToolsLoop_AddsUnpersisted(w2, server, transport, upstream, i + 1, failing)

\* a plausible slip: an error of the addition callback ends the import
RECURSIVE registerToolsLoop_StopsOnCallbackError(_, _, _, _, _, _)
registerToolsLoop_StopsOnCallbackError(w, server, transport, upstream, i, failing) ==
    IF i > Len(upstream) THEN Result(w, <<>>, FALSE)
    ELSE IF i \in failing
         THEN registerToolsLoop_StopsOnCallbackError([w EXCEPT !.attempts = @ + 1],
                                server, transport, upstream, i + 1, failing)
    ELSE LET canonicalToolName == mergeServerToolNames(server, upstream[i].name)
             w1 == [w EXCEPT !.tools = Append(@, ToolRow(server, upstream[i].name, TRUE,
                                                         upstream[i].schema)),
                             !.writes = @ + 1, !.attempts = @ + 1]
             w2 == notifyToolAddition(
                       addToolInstance(AddToolToProxy(w1, transport, canonicalToolName),
                                       canonicalToolName),
                       canonicalToolName)
         IN  IF toolAdditionCallbackError(canonicalToolName)
             THEN Result(w2, <<>>, TRUE)
             ELSE registerToolsLoop_StopsOnCallbackError(w2, server, transport, upstream,
                                                         i + 1, failing)

RECURSIVE registerToolsLoop(_, _, _, _, _, _)
registerToolsLoop(w, server, transport, upstream, i, failing) ==
    IF i > Len(upstream) THEN Result(w, <<>>, FALSE)
    ELSE IF i \in failing
         THEN registerToolsLoop([w EXCEPT !.attempts = @ + 1],
                                server, transport, upstream, i + 1, failing)
    ELSE LET canonicalToolName == mergeServerToolNames(server, upstream[i].name)
             \* gorm fills Enabled from the column default, true
             w1 == [w EXCEPT !.tools = Append(@, ToolRow(server, upstream[i].name, TRUE,
                                                         upstream[i].schema)),
                             !.writes = @ + 1, !.attempts = @ + 1]
             w2 == notifyToolAddition(
                       addToolInstance(AddToolToProxy(w1, transport, canonicalToolName),
                                       canonicalToolName),
                       canonicalToolName)
         IN  registerToolsLoop(w2, server, transport, upstream, i + 1, failing)

registerServerTools(w, server, transport, upstream, failing) ==
    registerToolsLoop(w, server, transport, upstream, 1, failing)

(***************************************************************************)
(* deregisterServerTools.  deleteFails: the store's delete returns an      *)
(* error.                                                                  *)
(***************************************************************************)
RECURSIVE DeleteRowsOf(_, _)
DeleteRowsOf(tools, server) ==
    IF tools = <<>> THEN <<>>
    ELSE IF Head(tools).server = server THEN DeleteRowsOf(Tail(tools), server)
    ELSE <<Head(tools)>> \o DeleteRowsOf(Tail(tools), server)

\* a plausible slip: the rows are deleted but the proxy is left as it was
deregisterServerTools_KeepProxy(w, server, deleteFails) ==
    IF validateServerName(server) # "ok" \/ server \notin DOMAIN dbServers
    THEN Result(w, <<>>, TRUE)
    ELSE IF deleteFails THEN Result([w EXCEPT !.attempts = @ + 1], <<>>, TRUE)
    ELSE LET toolNames == CanonicalNamesOf(w.tools, server)
             w1 == [w EXCEPT !.tools = DeleteRowsOf(@, server),
                             !.writes = @ + 1, !.attempts = @ + 1]
         IN  Result(notifyToolDeletion(deleteToolInstances(w1, toolNames), toolNames),
                    <<>>, FALSE)

\* a plausible slip: the proxy, the tracker and the subscriber are updated before
\* the rows are deleted, and stay so when the delete fails
deregisterServerTools_ProxyFirst(w, server, deleteFails) ==
    IF validateServerName(server) # "ok" \/ server \notin DOMAIN dbServers
    THEN Result(w, <<>>, TRUE)
    ELSE LET toolNames == CanonicalNamesOf(w.tools, server)
             w1 == DeleteToolsFromProxy(w, dbServers[server].transport, toolNames)
             w2 == notifyToolDeletion(deleteToolInstances(w1, toolNames), toolNames)
         IN  IF deleteFails THEN Result([w2 EXCEPT !.attempts = @ + 1], <<>>, TRUE)
             ELSE Result([w2 EXCEPT !.tools = DeleteRowsOf(@, server),
                                    !.writes = @ + 1, !.attempts = @ + 1], <<>>, FALSE)

deregisterServerTools(w, server, deleteFails) ==
    \* ListToolsByServer: validate the name, load the server, list its tools
    IF validateServerName(server) # "ok" \/ server \notin DOMAIN dbServers
    THEN Result(w, <<>>, TRUE)
    ELSE IF deleteFails THEN Result([w EXCEPT !.attempts = @ + 1], <<>>, TRUE)
    ELSE LET toolNames == CanonicalNamesOf(w.tools, server)
             w1 == [w EXCEPT !.tools = DeleteRowsOf(@, server),
                             !.writes = @ + 1, !.attempts = @ + 1]
             w2 == DeleteToolsFromProxy(w1, dbServers[server].transport, toolNames)
         IN  Result(notifyToolDeletion(deleteToolInstances(w2, toolNames), toolNames),
                    <<>>, FALSE)

(***************************************************************************)
(* InvokeTool.  Each caller runs the function step by step: look the       *)
(* server up, open the upstream session, call the tool, convert the        *)
(* result; the deferred Close runs when the function returns.              *)
(***************************************************************************)
\* most upstream sessions opened in a run
MaxSessions == 3

\* the goroutines that call InvokeTool
Callers == {"c1", "c2"}

\* the names InvokeTool is called with; the last has no separator
InvokeNames ==
    { mergeServerToolNames(<<"a">>, <<"a">>), mergeServerToolNames(<<"b">>, <<"a">>), <<"a">> }

IdleCall == [pc |-> "idle", name |-> <<>>, server |-> <<>>, mode |-> "", session |-> 0,
             err |-> FALSE]

\* calls that passed the server lookup and have not opened their session yet
Opening == {c \in Callers : calls[c].pc = "open"}

\* mcpClient.Close() on the session the call opened
CloseSession(i) == [sessions EXCEPT ![i].open = FALSE]

\* a plausible slip: the error of GetMcpServer is dropped and the call goes on
\* to open a session for a server that has no row
InvokeToolStart_NoLookup(c, name) ==
    /\ calls[c].pc = "idle"
    /\ Len(sessions) + Cardinality(Opening) < MaxSessions
    /\ LET cut == splitServerToolName(name)
       IN  calls' = [calls EXCEPT ![c] =
              IF ~cut[3]
              THEN [IdleCall EXCEPT !.pc = "returned", !.name = name, !.err = TRUE]
              ELSE [IdleCall EXCEPT !.pc = "open", !.name = name, !.server = cut[1],
                                    !.mode = IF cut[1] \in DOMAIN dbServers
                                             THEN dbServers[cut[1]].session_mode
                                             ELSE SessionModeStateless]]
    /\ UNCHANGED sessions

\* lines 115-132: split the name, load the server row
InvokeToolStart(c, name) ==
    /\ calls[c].pc = "idle"
    /\ Len(sessions) + Cardinality(Opening) < MaxSessions
    /\ LET cut == splitServerToolName(name)
       IN  calls' = [calls EXCEPT ![c] =
              IF ~cut[3] \/ cut[1] \notin DOMAIN dbServers
              THEN [IdleCall EXCEPT !.pc = "returned", !.name = name, !.err = TRUE]
              ELSE [IdleCall EXCEPT !.pc = "open", !.name = name, !.server = cut[1],
                                    !.mode = dbServers[cut[1]].session_mode]]
    /\ UNCHANGED sessions

\* a plausible slip: the session is opened but its Close is not deferred
InvokeOpenSession_NoDefer(c, fails) ==
    /\ calls[c].pc = "open"
    /\ IF fails
       THEN /\ calls' = [calls EXCEPT ![c].pc = "returned", ![c].err = TRUE]
            /\ UNCHANGED sessions
       ELSE /\ sessions' = Append(sessions, [server |-> calls[c].server,
                                             mode |-> calls[c].mode, open |-> TRUE])
            /\ calls' = [calls EXCEPT ![c].pc = "call"]

\* lines 134-138: newMcpServerSession, defer mcpClient.Close()
InvokeOpenSession(c, fails) ==
    /\ calls[c].pc = "open"
    /\ IF fails
       THEN /\ calls' = [calls EXCEPT ![c].pc = "returned", ![c].err = TRUE]
            /\ UNCHANGED sessions
       ELSE /\ sessions' = Append(sessions, [server |-> calls[c].server,
                                             mode |-> calls[c].mode, open |-> TRUE])
            /\ calls' = [calls EXCEPT ![c].pc = "call", ![c].session = Len(sessions) + 1]

\* lines 140-147: mcpClient.CallTool; an error returns, which runs the deferred Close
InvokeCallTool(c, fails) ==
    /\ calls[c].pc = "call"
    /\ IF fails
       THEN /\ calls' = [calls EXCEPT ![c].pc = "returned", ![c].err = TRUE]
            /\ sessions' = IF calls[c].session = 0 THEN sessions
                           ELSE CloseSession(calls[c].session)
       ELSE /\ calls' = [calls EXCEPT ![c].pc = "convert"]
            /\ UNCHANGED sessions

\* lines 154-162: convertToolCallResToAPIRes, return; the deferred Close runs
InvokeConvert(c, fails) ==
    /\ calls[c].pc = "convert"
    /\ calls' = [calls EXCEPT ![c].pc = "returned", ![c].err = fails]
    /\ sessions' = IF calls[c].session = 0 THEN sessions ELSE CloseSession(calls[c].session)

\* the caller has its result and may call again
InvokeToolReturn(c) ==
    /\ calls[c].pc = "returned"
    /\ calls' = [calls EXCEPT ![c] = IdleCall]
    /\ UNCHANGED sessions

(***************************************************************************)
(* setToolsEnabled on one tool, run step by step by concurrent callers.    *)
(* Nothing in the function takes a lock: MCPService.mu guards the          *)
(* tool-instance tracker only, inside addToolInstance and                  *)
(* deleteToolInstances.                                                    *)
(***************************************************************************)
\* the goroutines that call EnableTools / DisableTools
Mutators == {"p1", "p2"}

IdleMut == [pc |-> "idle", entity |-> <<>>, enabled |-> FALSE, row |-> 0, err |-> FALSE]

\* the steps between the read of the row and the return
MutSteps == {"save", "proxy", "tracker", "notify"}

\* the catalog after a step that leaves the world w
MutApply(w) ==
    /\ dbTools' = w.tools
    /\ mcpProxyServer' = w.http
    /\ sseMcpProxyServer' = w.sse
    /\ toolInstances' = w.inst
    /\ groupServers' = w.gsrv

\* lines 204-220: split the name, load the server and the tool row, compare the flag
MutStart(p, entity, enabled) ==
    /\ muts[p].pc = "idle"
    /\ LET cut == splitServerToolName(entity)
           i == IF cut[3] /\ cut[1] \in DOMAIN dbServers
                THEN FirstTool(dbTools, cut[1], cut[2]) ELSE 0
       IN  /\ cut[3]
           /\ muts' = [muts EXCEPT ![p] =
                 IF i = 0
                 THEN [IdleMut EXCEPT !.pc = "returned", !.entity = entity,
                                      !.enabled = enabled, !.err = TRUE]
                 ELSE IF dbTools[i].enabled = enabled
                 THEN [IdleMut EXCEPT !.pc = "returned", !.entity = entity,
                                      !.enabled = enabled, !.row = i]
                 ELSE [IdleMut EXCEPT !.pc = "save", !.entity = entity,
                                      !.enabled = enabled, !.row = i]]
    /\ UNCHANGED <<dbTools, mcpProxyServer, sseMcpProxyServer, toolInstances, groupServers>>

\* lines 222-232: tool.Enabled = enabled, db.Save(&tool), convertToolModelToMcpObject
MutSave(p, fails) ==
    /\ muts[p].pc = "save"
    /\ IF fails
       THEN /\ muts' = [muts EXCEPT ![p].pc = "returned", ![p].err = TRUE]
            /\ MutApply(World)
       ELSE /\ MutApply(SaveTool(World, muts[p].row, muts[p].enabled))
            /\ muts' = IF ConvertFails(World, muts[p].row, muts[p].enabled)
                       THEN [muts EXCEPT ![p].pc = "returned", ![p].err = TRUE]
                       ELSE [muts EXCEPT ![p].pc = "proxy"]

\* lines 236-240, 248-252: AddTool / DeleteTools on the proxy of the transport
MutProxy(p) ==
    /\ muts[p].pc = "proxy"
    /\ LET transport == dbServers[splitServerToolName(muts[p].entity)[1]].transport
       IN  MutApply(IF muts[p].enabled
                    THEN AddToolToProxy(World, transport, muts[p].entity)
                    ELSE DeleteToolsFromProxy(World, transport, <<muts[p].entity>>))
    /\ muts' = [muts EXCEPT ![p].pc = "tracker"]

\* lines 243, 255: addToolInstance / deleteToolInstances
MutTracker(p) ==
    /\ muts[p].pc = "tracker"
    /\ MutApply(IF muts[p].enabled
                THEN addToolInstance(World, muts[p].entity)
                ELSE deleteToolInstances(World, <<muts[p].entity>>))
    /\ muts' = [muts EXCEPT ![p].pc = "notify"]

\* lines 245, 257, 260: notifyToolAddition / notifyToolDeletion, return
MutNotify(p) ==
    /\ muts[p].pc = "notify"
    /\ MutApply(IF muts[p].enabled
                THEN notifyToolAddition(World, muts[p].entity)
                ELSE notifyToolDeletion(World, <<muts[p].entity>>))
    /\ muts' = [muts EXCEPT ![p].pc = "returned"]

\* the caller has its result and may call again
MutReturn(p) ==
    /\ muts[p].pc = "returned"
    /\ muts' = [muts EXCEPT ![p] = IdleMut]
    /\ UNCHANGED <<dbTools, mcpProxyServer, sseMcpProxyServer, toolInstances, groupServers>>

(***************************************************************************)
(* Access tokens, users and MCP clients.  The rows of model.User and       *)
(* model.McpClient and their uniqueness constraints are modelled from the  *)
(* specification; the services are translated from the source.             *)
(***************************************************************************)
\* characters that unicode.IsSpace accepts
Whitespace == {" ", "\t", "\n", "nbsp"}

\* characters that take two bytes in UTF-8
TwoByteChars == {"e'", "nbsp"}

\* len(token): the number of bytes of the string
RECURSIVE ByteLen(_)
ByteLen(token) ==
    IF token = <<>> THEN 0
    ELSE (IF Head(token) \in TwoByteChars THEN 2 ELSE 1) + ByteLen(Tail(token))

hasWhitespace(token) == \E i \in DOMAIN token : token[i] \in Whitespace

\* ValidateAccessToken: TRUE when the token is accepted
ValidateAccessToken_NoWhitespaceCheck(token) == ~(ByteLen(token) < 8)

ValidateAccessToken(token) == ~(ByteLen(token) < 8) /\ ~hasWhitespace(token)

\* a token of n characters c
Repeat(c, n) == [i \in 1..n |-> c]

\* GenerateAccessToken: 32 random bytes in unpadded URL-safe base64, 43 characters
GeneratedTokens == {Repeat("A", 43), Repeat("B", 43)}

\* custom tokens that pass the validation
GoodTokens ==
    { <<"a", "b", "c", "d", "e", "f", "g", "h">> }

\* custom tokens that fail it: too short, or with a space, a tab, a newline, a
\* no-break space
BadTokens ==
    { <<"a", "b", "c", "d", "e", "f", "g">>,
      <<"a", "b", "c", " ", "e", "f", "g", "h">>,
      <<"a", "b", "c", "d", "e", "f", "g", "h", "\t">>,
      <<"\n", "b", "c", "d", "e", "f", "g", "h">>,
      <<"a", "b", "c", "nbsp", "e", "f", "g">> }

\* the access tokens a request can carry; <<>> is "no custom token"
TokenInputs == {<<>>} \cup GoodTokens \cup BadTokens

\* what a request carries: no token, a token of GoodTokens or one of BadTokens
TokenKind(token) ==
    IF token = <<>> THEN "none"
    ELSE IF token \in BadTokens THEN "bad"
    ELSE "good"

Usernames == {"admin", "alice"}

ClientNames == {"cursor", "claude"}

\* the allow_list of a create request: absent (nil), or a list of server names
NilAllowList == [null |-> TRUE, list |-> <<>>]

AllowList(list) == [null |-> FALSE, list |-> list]

AllowInputs == {NilAllowList, AllowList(<<>>), AllowList(<< <<"a">> >>), AllowList(<< <<"*">> >>)}

UserRoleAdmin == "admin"
UserRoleUser == "user"

UserRow(username, role, token) == [username |-> username, role |-> role, token |-> token]

AdminRow(token) == UserRow("admin", UserRoleAdmin, token)

ClientRow(name, description, token, allow) ==
    [name |-> name, description |-> description, token |-> token, allow |-> allow]

\* the descriptions a client request carries
NoDescription == <<>>
Descriptions == {NoDescription, <<"d">>}

\* the model.User a request is bound to: every field the caller may set
UserInput(username, role, token) == [username |-> username, role |-> role, token |-> token]

\* the model.McpClient a request is bound to; allow is absent or a list
ClientInput(name, description, token, allow) ==
    [name |-> name, description |-> description, token |-> token, allow |-> allow]

\* <<rows, err>> of the operations below
AuthResult(rows, err) == [rows |-> rows, err |-> err]

UserNamed(us, username) == {u \in us : u.username = username}

\* db.Create(&user): the username is unique
CreateUserRow(us, row) ==
    IF UserNamed(us, row.username) # {}
    THEN AuthResult(us, TRUE)
    ELSE AuthResult(us \cup {row}, FALSE)

\* UserService.CreateAdminUser with the generated token
CreateAdminUser(us, generated) == CreateUserRow(us, AdminRow(generated))

\* UserService.GetUserByAccessToken: the rows that hold the token
GetUserByAccessToken(us, token) == {u \in us : u.token = token}

\* a plausible slip: the role of the input is stored
CreateUser_KeepsInputRole(us, input, generated) ==
    IF input.token = <<>>
    THEN CreateUserRow(us, UserRow(input.username, input.role, generated))
    ELSE IF ~ValidateAccessToken(input.token)
    THEN AuthResult(us, TRUE)
    ELSE CreateUserRow(us, UserRow(input.username, input.role, input.token))

\* UserService.CreateUser: Username and AccessToken are read from the input, the
\* role is types.UserRoleUser
CreateUser(us, input, generated) ==
    IF input.token = <<>>
    THEN CreateUserRow(us, UserRow(input.username, UserRoleUser, generated))
    ELSE IF ~ValidateAccessToken(input.token)
    THEN AuthResult(us, TRUE)
    ELSE CreateUserRow(us, UserRow(input.username, UserRoleUser, input.token))

\* a plausible slip: the input is saved in place of the row that was loaded
UpdateUser_SavesInput(us, input) ==
    IF UserNamed(us, input.username) = {}
    THEN AuthResult(us, TRUE)
    ELSE IF input.token = <<>>
    THEN AuthResult(us, TRUE)
    ELSE IF ~ValidateAccessToken(input.token)
    THEN AuthResult(us, TRUE)
    ELSE AuthResult({IF u.username = input.username
                     THEN UserRow(input.username, input.role, input.token) ELSE u : u \in us},
                    FALSE)

\* UserService.UpdateUser: the row is loaded by input.Username, its AccessToken
\* is set from the input and the row is saved
UpdateUser(us, input) ==
    IF UserNamed(us, input.username) = {}
    THEN AuthResult(us, TRUE)
    ELSE IF input.token = <<>>
    THEN AuthResult(us, TRUE)
    ELSE IF ~ValidateAccessToken(input.token)
    THEN AuthResult(us, TRUE)
    ELSE AuthResult({IF u.username = input.username THEN [u EXCEPT !.token = input.token]
                     ELSE u : u \in us},
                    FALSE)

\* UserService.DeleteUser
DeleteUser_AnyRole(us, username) ==
    IF UserNamed(us, username) = {}
    THEN AuthResult(us, TRUE)
    ELSE AuthResult(us \ UserNamed(us, username), FALSE)

DeleteUser(us, username) ==
    IF UserNamed(us, username) = {}
    THEN AuthResult(us, TRUE)
    ELSE IF \E u \in UserNamed(us, username) : u.role = UserRoleAdmin
    THEN AuthResult(us, TRUE)
    ELSE AuthResult(us \ UserNamed(us, username), FALSE)

ClientNamed(cs, name) == {c \in cs : c.name = name}

\* McpClientService.GetClientByToken: the rows that hold the token
GetClientByToken(cs, token) == {c \in cs : c.token = token}

\* db.Create(&client): the name is unique and the access token is unique
CreateClientRow_TokenNotUnique(cs, row) ==
    IF ClientNamed(cs, row.name) # {}
    THEN AuthResult(cs, TRUE)
    ELSE AuthResult(cs \cup {row}, FALSE)

CreateClientRow(cs, row) ==
    IF ClientNamed(cs, row.name) # {} \/ GetClientByToken(cs, row.token) # {}
    THEN AuthResult(cs, TRUE)
    ELSE AuthResult(cs \cup {row}, FALSE)

\* the allow list that CreateClient stores
StoredAllowList_NilIsWildcard(allow) == IF allow.null THEN << <<"*">> >> ELSE allow.list

StoredAllowList(allow) == IF allow.null THEN <<>> ELSE allow.list

\* McpClientService.CreateClient
CreateClient(cs, input, generated) ==
    IF input.token # <<>> /\ ~ValidateAccessToken(input.token)
    THEN AuthResult(cs, TRUE)
    ELSE CreateClientRow(cs, ClientRow(input.name, input.description,
                                       IF input.token # <<>> THEN input.token ELSE generated,
                                       StoredAllowList(input.allow)))

\* McpClientService.DeleteClient
DeleteClient_MissingIsError(cs, name, fails) ==
    IF fails \/ ClientNamed(cs, name) = {}
    THEN AuthResult(cs, TRUE)
    ELSE AuthResult(cs \ ClientNamed(cs, name), FALSE)

DeleteClient(cs, name, fails) ==
    IF fails
    THEN AuthResult(cs, TRUE)
    ELSE AuthResult(cs \ ClientNamed(cs, name), FALSE)

\* McpClientService.UpdateClient: db.Save fails when another row holds the token
UpdateClient_SavesInput(cs, updatedClient) ==
    IF ClientNamed(cs, updatedClient.name) = {}
    THEN AuthResult(cs, TRUE)
    ELSE IF ~ValidateAccessToken(updatedClient.token)
    THEN AuthResult(cs, TRUE)
    ELSE IF \E c \in GetClientByToken(cs, updatedClient.token) : c.name # updatedClient.name
    THEN AuthResult(cs, TRUE)
    ELSE AuthResult({IF c.name = updatedClient.name
                     THEN ClientRow(c.name, updatedClient.description, updatedClient.token,
                                    StoredAllowList(updatedClient.allow))
                     ELSE c : c \in cs},
                    FALSE)

UpdateClient(cs, updatedClient) ==
    IF ClientNamed(cs, updatedClient.name) = {}
    THEN AuthResult(cs, TRUE)
    ELSE IF ~ValidateAccessToken(updatedClient.token)
    THEN AuthResult(cs, TRUE)
    ELSE IF \E c \in GetClientByToken(cs, updatedClient.token) : c.name # updatedClient.name
    THEN AuthResult(cs, TRUE)
    ELSE AuthResult({IF c.name = updatedClient.name THEN [c EXCEPT !.token = updatedClient.token]
                     ELSE c : c \in cs},
                    FALSE)

\* the allow list grants the server
CheckHasServerAccess(client, server) ==
    \E i \in DOMAIN client.allow : client.allow[i] = server \/ client.allow[i] = <<"*">>

\* the outcome of a tool call on the proxy endpoint that carries the token
ProxyAccess_IgnoresAllowList(mode, us, cs, token, name) ==
    IF mode = "development" THEN "ok"
    ELSE IF GetClientByToken(cs, token) # {} \/ GetUserByAccessToken(us, token) # {} THEN "ok"
    ELSE "unauthorized"

ProxyAccess(mode, us, cs, token, name) ==
    IF mode = "development" THEN "ok"
    ELSE IF GetClientByToken(cs, token) # {}
    THEN IF \E c \in GetClientByToken(cs, token) :
               splitServerToolName(name)[3]
               /\ CheckHasServerAccess(c, splitServerToolName(name)[1])
         THEN "ok"
         ELSE "forbidden"
    ELSE IF GetUserByAccessToken(us, token) # {} THEN "ok"
    ELSE "unauthorized"

(***************************************************************************)
(* The start command (runStartServer) and the stored server configuration. *)
(* One process at a time runs against the database.  ServerConfigService   *)
(* and the handler of POST /init are modelled from the specification.      *)
(***************************************************************************)
\* how many times the start command runs on one database
MaxStarts == 4

\* how many requests one process serves
MaxRequests == 3

ModeDev == "development"
ModeEnterprise == "enterprise"
ModeProd == "production"

\* values of the SERVER_MODE environment variable ("" is unset)
EnvModes == {"", "development", "enterprise", "production", "Enterprise", "staging"}

\* strings.ToLower on the values of EnvModes
ToLower(str) == IF str = "Enterprise" THEN "enterprise" ELSE str

\* the ServerConfig row of a fresh database
Uninitialized == [initialized |-> FALSE, mode |-> ""]

\* getDesiredServerMode: <<mode, err>> from the environment variable and the flags
getDesiredServerMode(env, enterpriseFlag, prodFlag) ==
    LET lower == ToLower(env)
        envMode == IF lower = ModeProd THEN ModeEnterprise ELSE lower
    IN  IF env # "" /\ envMode # ModeDev /\ envMode # ModeEnterprise
        THEN <<"", TRUE>>
        ELSE IF enterpriseFlag \/ prodFlag
        THEN <<ModeEnterprise, FALSE>>
        ELSE IF env # ""
        THEN <<envMode, FALSE>>
        ELSE <<ModeDev, FALSE>>

\* ServerConfigService.Init: <<config, err>>; sets the mode of an uninitialized store
ConfigInit(cfg, mode) ==
    IF cfg.initialized
    THEN <<cfg, TRUE>>
    ELSE <<[initialized |-> TRUE, mode |-> mode], FALSE>>

\* UserService.CreateAdminUser: the admin row with its generated access token
AdminUser == AdminRow(CHOOSE token \in GeneratedTokens : TRUE)

StoppedProc ==
    [pc |-> "stopped", desired |-> "", startConfig |-> Uninitialized, startUsers |-> {},
     err |-> FALSE, inits |-> 0, served |-> 0]

\* a fresh database and no process
StartInit ==
    /\ config = Uninitialized
    /\ users = {}
    /\ proc = StoppedProc
    /\ starts = 0

\* runStartServer up to the creation of the server: resolve the desired mode
StartProcess(env, enterpriseFlag, prodFlag) ==
    /\ proc.pc = "stopped"
    /\ starts < MaxStarts
    /\ starts' = starts + 1
    /\ LET d == getDesiredServerMode(env, enterpriseFlag, prodFlag)
       IN  proc' = [StoppedProc EXCEPT !.pc = IF d[2] THEN "failed" ELSE "check",
                                       !.desired = d[1], !.err = d[2],
                                       !.startConfig = config, !.startUsers = users]
    /\ UNCHANGED <<config, users>>

\* start.go 406-422: IsInitialized, GetMode and the comparison with the desired mode
StartCheck_NoModeCheck(fails) ==
    /\ proc.pc = "check"
    /\ proc' = IF fails THEN [proc EXCEPT !.pc = "failed", !.err = TRUE]
               ELSE IF config.initialized THEN [proc EXCEPT !.pc = "ready"]
               ELSE [proc EXCEPT !.pc = "init"]
    /\ UNCHANGED <<config, users, starts>>

StartCheck(fails) ==
    /\ proc.pc = "check"
    /\ proc' = IF fails
               THEN [proc EXCEPT !.pc = "failed", !.err = TRUE]
               ELSE IF config.initialized
               THEN IF proc.desired # config.mode
                    THEN [proc EXCEPT !.pc = "failed", !.err = TRUE]
                    ELSE [proc EXCEPT !.pc = "ready"]
               ELSE [proc EXCEPT !.pc = "init"]
    /\ UNCHANGED <<config, users, starts>>

\* start.go 423-438: InitDev for development, only a reminder for enterprise
StartInitialize_InitAnyMode(fails) ==
    /\ proc.pc = "init"
    /\ IF fails
       THEN /\ proc' = [proc EXCEPT !.pc = "failed", !.err = TRUE]
            /\ config' = config
       ELSE /\ config' = ConfigInit(config, proc.desired)[1]
            /\ proc' = [proc EXCEPT !.pc = "ready"]
    /\ UNCHANGED <<users, starts>>

StartInitialize(fails) ==
    /\ proc.pc = "init"
    /\ IF proc.desired = ModeDev
       THEN IF fails \/ ConfigInit(config, ModeDev)[2]
            THEN /\ proc' = [proc EXCEPT !.pc = "failed", !.err = TRUE]
                 /\ config' = config
            ELSE /\ config' = ConfigInit(config, ModeDev)[1]
                 /\ proc' = [proc EXCEPT !.pc = "ready"]
       ELSE /\ proc' = [proc EXCEPT !.pc = "ready"]
            /\ config' = config
    /\ UNCHANGED <<users, starts>>

\* start.go 441-446: s.Start(), the HTTP server is listening
StartServe ==
    /\ proc.pc = "ready"
    /\ proc' = [proc EXCEPT !.pc = "serving"]
    /\ UNCHANGED <<config, users, starts>>

\* POST /init: initialize the store in the requested mode; enterprise creates the admin
InitServer(mode) ==
    /\ proc.pc = "serving"
    /\ LET r == ConfigInit(config, mode)
       IN  IF r[2]
           THEN UNCHANGED <<config, users, proc>>
           ELSE /\ config' = r[1]
                /\ users' = IF mode = ModeEnterprise THEN users \cup {AdminUser} ELSE users
                /\ proc' = [proc EXCEPT !.inits = 1]
    /\ UNCHANGED starts

\* a request to a route behind requireInitialized is served
ServeRequest ==
    /\ proc.pc = "serving"
    /\ config.initialized
    /\ proc.served < MaxRequests
    /\ proc' = [proc EXCEPT !.served = proc.served + 1]
    /\ UNCHANGED <<config, users, starts>>

\* the process ends: runStartServer has returned its error, or the server was stopped
StopProcess ==
    /\ proc.pc \in {"failed", "serving"}
    /\ proc' = StoppedProc
    /\ UNCHANGED <<config, users, starts>>

(***************************************************************************)
(* The operations on users, clients and the proxy endpoint as steps.       *)
(***************************************************************************)
NoAuthOp ==
    [op |-> "none", name |-> "", kind |-> "none", token |-> <<>>, tool |-> <<>>,
     err |-> FALSE, outcome |-> "", body |-> "", role |-> ""]

\* the record of an operation on a user or a client
AuthOp(op, name, token, err) ==
    [NoAuthOp EXCEPT !.op = op, !.name = name, !.kind = TokenKind(token), !.err = err]

\* no client, no access operation yet
AuthInit ==
    /\ clients = {}
    /\ authOp = NoAuthOp

\* the routes of users and clients are open on an initialized enterprise server
EnterpriseReady == config.initialized /\ config.mode = "enterprise"

\* POST /init on the fresh store: the mode is stored, enterprise creates the admin
AuthInitServer(mode, generated) ==
    /\ ~config.initialized
    /\ config' = ConfigInit(config, mode)[1]
    /\ users' = IF mode = "enterprise" THEN CreateAdminUser(users, generated).rows ELSE users
    /\ authOp' = AuthOp("init", mode, <<>>, FALSE)
    /\ UNCHANGED clients

\* the effect of a user operation with result r
CommitUsers(op, name, token, r) ==
    /\ users' = r.rows
    /\ authOp' = AuthOp(op, name, token, r.err)
    /\ UNCHANGED <<config, clients>>

\* the same for an operation that is given a whole model.User
CommitUserInput(op, input, r) ==
    /\ users' = r.rows
    /\ authOp' = [AuthOp(op, input.username, input.token, r.err) EXCEPT !.role = input.role]
    /\ UNCHANGED <<config, clients>>

\* the effect of a client operation with result r
CommitClients(op, name, token, r) ==
    /\ clients' = r.rows
    /\ authOp' = AuthOp(op, name, token, r.err)
    /\ UNCHANGED <<config, users>>

AuthCreateAdmin(generated) ==
    /\ EnterpriseReady
    /\ CommitUsers("createAdmin", "admin", <<>>, CreateAdminUser(users, generated))

AuthCreateUser(input, generated) ==
    /\ EnterpriseReady
    /\ CommitUserInput("createUser", input, CreateUser(users, input, generated))

AuthUpdateUser(input) ==
    /\ EnterpriseReady
    /\ CommitUserInput("updateUser", input, UpdateUser(users, input))

AuthDeleteUser(username) ==
    /\ EnterpriseReady
    /\ CommitUsers("deleteUser", username, <<>>, DeleteUser(users, username))

AuthCreateClient(input, generated) ==
    /\ EnterpriseReady
    /\ CommitClients("createClient", input.name, input.token,
                     CreateClient(clients, input, generated))

AuthUpdateClient(updatedClient) ==
    /\ EnterpriseReady
    /\ CommitClients("updateClient", updatedClient.name, updatedClient.token,
                     UpdateClient(clients, updatedClient))

\* the token of the named client, <<>> when there is none
TokenOf(cs, name) ==
    IF ClientNamed(cs, name) = {} THEN <<>> ELSE (CHOOSE c \in ClientNamed(cs, name) : TRUE).token

AuthDeleteClient(name, fails) ==
    /\ EnterpriseReady
    /\ LET r == DeleteClient(clients, name, fails)
       IN  /\ clients' = r.rows
           /\ authOp' = [AuthOp("deleteClient", name, <<>>, r.err)
                            EXCEPT !.token = TokenOf(clients, name),
                                   !.outcome = IF fails THEN "dbError" ELSE ""]
    /\ UNCHANGED <<config, users>>

\* a tool call arrives on the proxy endpoint with a bearer token
ProxyToolCall(token, name) ==
    /\ config.initialized
    /\ LET outcome == ProxyAccess(config.mode, users, clients, token, name)
       IN  authOp' = [NoAuthOp EXCEPT !.op = "call", !.token = token, !.tool = name,
                                      !.err = outcome # "ok", !.outcome = outcome]
    /\ UNCHANGED <<config, users, clients>>

\* PUT /api/v0/users/:username: the path parameter is tested for emptiness, the
\* body is bound to a model.User and passed to UpdateUser as it is
updateUserHandler(username, input) ==
    /\ EnterpriseReady
    /\ LET r == IF username = "" THEN AuthResult(users, TRUE) ELSE UpdateUser(users, input)
       IN  /\ users' = r.rows
           /\ authOp' = [AuthOp("putUser", username, input.token, r.err)
                            EXCEPT !.body = input.username]
    /\ UNCHANGED <<config, clients>>

\* a plausible slip: the name of the body is used
updateMcpClientHandler_BodyName(name, req) ==
    /\ EnterpriseReady
    /\ LET r == IF name = "" THEN AuthResult(clients, TRUE) ELSE UpdateClient(clients, req)
       IN  /\ clients' = r.rows
           /\ authOp' = [AuthOp("putClient", name, req.token, r.err) EXCEPT !.body = req.name]
    /\ UNCHANGED <<config, users>>

\* PUT /api/v0/clients/:name: req.Name = name before UpdateClient(req)
updateMcpClientHandler(name, req) ==
    /\ EnterpriseReady
    /\ LET r == IF name = "" THEN AuthResult(clients, TRUE)
                ELSE UpdateClient(clients, [req EXCEPT !.name = name])
       IN  /\ clients' = r.rows
           /\ authOp' = [AuthOp("putClient", name, req.token, r.err) EXCEPT !.body = req.name]
    /\ UNCHANGED <<config, users>>

(***************************************************************************)
(* The McpServer records with their transport configuration, and the two   *)
(* endpoints that return them.                                             *)
(***************************************************************************)
RegistryNames == {"calc", "github"}

\* bearer tokens of a register request; "" is none
BearerTokens == {"", "tok1"}

\* custom headers of a register request, as sets of <<key, value>>
HeaderMaps == {{}, {<<"X-Api-Key", "k1">>}}

\* environment of a stdio server
EnvMaps == {{}, {<<"API_KEY", "e1">>}}

\* json.Marshal with omitempty: the key is present only when the value is not empty
OmitEmpty(key, empty) == IF empty THEN {} ELSE {key}

\* json.Unmarshal of one field: the zero value when the key is absent
JsonField(obj, key, zero) == IF key \in DOMAIN obj THEN obj[key] ELSE zero

StreamableHTTPConfig(url, bearerToken, headers) ==
    [k \in {"url"} \cup OmitEmpty("bearer_token", bearerToken = "")
                   \cup OmitEmpty("headers", headers = {}) |->
        IF k = "url" THEN url ELSE IF k = "bearer_token" THEN bearerToken ELSE headers]

StdioConfig(command, args, env) ==
    [k \in {"command"} \cup OmitEmpty("args", args = <<>>) \cup OmitEmpty("env", env = {}) |->
        IF k = "command" THEN command ELSE IF k = "args" THEN args ELSE env]

SSEConfig(url, bearerToken) ==
    [k \in {"url"} \cup OmitEmpty("bearer_token", bearerToken = "") |->
        IF k = "url" THEN url ELSE bearerToken]

McpServer(name, transport, cfg, sessionMode) ==
    [name |-> name, transport |-> transport, config |-> cfg,
     session_mode |-> IF sessionMode = "" THEN SessionModeStateless ELSE sessionMode]

\* the register request
RegisterServerInput(name, transport, url, bearerToken, headers, command, env) ==
    [name |-> name, transport |-> transport, url |-> url, bearer_token |-> bearerToken,
     headers |-> headers, command |-> command, env |-> env, session_mode |-> ""]

\* registerServerHandler: the record built from the request, <<record, err>>
NewServerRecord(input) ==
    IF input.transport = TransportStreamableHTTP
    THEN IF input.url = "" THEN <<input, TRUE>>
         ELSE <<McpServer(input.name, TransportStreamableHTTP,
                          StreamableHTTPConfig(input.url, input.bearer_token, input.headers),
                          input.session_mode), FALSE>>
    ELSE IF input.transport = TransportStdio
    THEN IF input.command = "" THEN <<input, TRUE>>
         ELSE <<McpServer(input.name, TransportStdio,
                          StdioConfig(input.command, <<>>, input.env),
                          input.session_mode), FALSE>>
    ELSE IF input.url = "" THEN <<input, TRUE>>
         ELSE <<McpServer(input.name, TransportSSE,
                          SSEConfig(input.url, input.bearer_token),
                          input.session_mode), FALSE>>

GetStreamableHTTPConfig(record) ==
    [url |-> JsonField(record.config, "url", ""),
     bearer_token |-> JsonField(record.config, "bearer_token", ""),
     headers |-> JsonField(record.config, "headers", {})]

GetStdioConfig(record) ==
    [command |-> JsonField(record.config, "command", ""),
     args |-> JsonField(record.config, "args", <<>>),
     env |-> JsonField(record.config, "env", {})]

GetSSEConfig(record) ==
    [url |-> JsonField(record.config, "url", ""),
     bearer_token |-> JsonField(record.config, "bearer_token", "")]

\* the fields both responses start from
ServerBase(record) ==
    [name |-> record.name, transport |-> record.transport, session_mode |-> record.session_mode,
     url |-> "", command |-> "", args |-> <<>>, env |-> {}]

\* the fields of types.RegisterServerInput beyond those of the list entry
ConfigBase(record) ==
    [name |-> record.name, transport |-> record.transport, session_mode |-> record.session_mode,
     url |-> "", command |-> "", args |-> <<>>, env |-> {}, bearer_token |-> "", headers |-> {}]

\* getServerConfigsHandler: one types.RegisterServerInput per record
getServerConfigsEntry_OmitsSecrets(record) ==
    [ConfigBase(record) EXCEPT !.url = JsonField(record.config, "url", "")]

getServerConfigsEntry(record) ==
    IF record.transport = TransportStreamableHTTP
    THEN [ConfigBase(record) EXCEPT !.url = GetStreamableHTTPConfig(record).url,
                                    !.bearer_token = GetStreamableHTTPConfig(record).bearer_token,
                                    !.headers = GetStreamableHTTPConfig(record).headers]
    ELSE IF record.transport = TransportStdio
    THEN [ConfigBase(record) EXCEPT !.command = GetStdioConfig(record).command,
                                    !.args = GetStdioConfig(record).args,
                                    !.env = GetStdioConfig(record).env]
    ELSE [ConfigBase(record) EXCEPT !.url = GetSSEConfig(record).url,
                                    !.bearer_token = GetSSEConfig(record).bearer_token]

getServerConfigsHandler(records) == [i \in DOMAIN records |-> getServerConfigsEntry(records[i])]

\* listServersHandler: one types.McpServer per record
listServersEntry_FullConfig(record) == getServerConfigsEntry(record)

listServersEntry(record) ==
    IF record.transport = TransportStreamableHTTP
    THEN [ServerBase(record) EXCEPT !.url = GetStreamableHTTPConfig(record).url]
    ELSE IF record.transport = TransportStdio
    THEN [ServerBase(record) EXCEPT !.command = GetStdioConfig(record).command,
                                    !.args = GetStdioConfig(record).args,
                                    !.env = GetStdioConfig(record).env]
    ELSE [ServerBase(record) EXCEPT !.url = GetSSEConfig(record).url]

listServersHandler(records) == [i \in DOMAIN records |-> listServersEntry(records[i])]

NoResponse == [endpoint |-> "none", body |-> <<>>]

\* no server, no response yet
RegistryInit ==
    /\ registry = <<>>
    /\ response = NoResponse

\* POST /servers: build the record and store it under its unique name
RegistryRegister(input) ==
    /\ ~NewServerRecord(input)[2]
    /\ \A i \in DOMAIN registry : registry[i].name # input.name
    /\ registry' = Append(registry, NewServerRecord(input)[1])
    /\ UNCHANGED response

\* DELETE /servers/:name
RegistryDeregister(name) ==
    /\ \E i \in DOMAIN registry : registry[i].name = name
    /\ registry' = SelectSeq(registry, LAMBDA r : r.name # name)
    /\ UNCHANGED response

\* GET /servers
ListServers ==
    /\ response' = [endpoint |-> "servers", body |-> listServersHandler(registry)]
    /\ UNCHANGED registry

\* GET /server_configs
GetServerConfigs ==
    /\ response' = [endpoint |-> "server_configs", body |-> getServerConfigsHandler(registry)]
    /\ UNCHANGED registry

(***************************************************************************)
(* newMcpServerSession: opening a session with an upstream MCP server.     *)
(* Time is counted in whole seconds since the call began.                  *)
(***************************************************************************)
\* seconds the model's clock runs while one session is being initialized
MaxClock == 4

\* the values MCP_SERVER_INIT_REQ_TIMEOUT_SEC is configured with
InitReqTimeouts == {1, 2}

\* the caller's context: without a deadline, or with one that many seconds away
NoDeadline == 0
CallerDeadlines == {NoDeadline, 1, 3}

\* the errors newMcpServerSession returns
ErrNone == "none"
\* "initialization request to MCP server timed out after %d seconds"
ErrTimeout == "timed out after seconds"
\* "failed to initialize connection with MCP server: %w" and, for SSE,
\* "client failed to initialize connection with SSE MCP server: %w"
ErrInitialize == "failed to initialize"

NoConn ==
    [transport |-> "none", timeout |-> 0, deadline |-> NoDeadline, ctx |-> NoDeadline,
     elapsed |-> 0, state |-> "none", err |-> ErrNone, seconds |-> 0, upstream |-> "none"]

ConnInit == conn = NoConn

\* context.WithTimeout(ctx, d): the earlier of the parent's deadline and d
WithTimeout(deadline, timeout) ==
    IF deadline = NoDeadline \/ timeout < deadline THEN timeout ELSE deadline

\* the context c.Initialize is called with: createHTTPMcpServerConn and
\* runStdioServer derive initCtx from ctx with the configured timeout,
\* createSSEMcpServerConn takes no timeout and passes the caller's ctx
InitContext(transport, deadline, timeout) ==
    IF transport = TransportSSE THEN deadline ELSE WithTimeout(deadline, timeout)

\* the error returned when c.Initialize fails: createHTTPMcpServerConn and
\* runStdioServer test errors.Is(err, context.DeadlineExceeded),
\* createSSEMcpServerConn wraps every error the same way
InitializeError(transport, deadlineExceeded) ==
    IF deadlineExceeded /\ transport # TransportSSE THEN ErrTimeout ELSE ErrInitialize

\* what the attempt holds once the client is created, before c.Initialize:
\* client.NewStdioMCPClient has spawned the child process (its stderr is being
\* read), c.Start(ctx) has opened the SSE stream, and the streamable HTTP client
\* holds no connection between requests
Upstream(transport) ==
    IF transport = TransportStdio THEN "child"
    ELSE IF transport = TransportSSE THEN "stream"
    ELSE "none"

\* what is left of it when c.Initialize has returned an error: every error branch
\* returns nil, err with no c.Close().  The child process is not bound to
\* initCtx and keeps running; the SSE stream was started with the caller's ctx
\* and ends with it
UpstreamAfterError(transport, upstream, ctxDone) ==
    IF transport = TransportSSE /\ ctxDone THEN "closed" ELSE upstream

Initializing == conn.state = "initializing"

\* the context of c.Initialize is not done yet
ContextLive == conn.ctx = NoDeadline \/ conn.elapsed < conn.ctx

\* newMcpServerSession(ctx, s, initReqTimeoutSec) sends the initialize request
ConnOpen(transport, timeout, deadline) ==
    /\ ~Initializing
    /\ conn' = [transport |-> transport, timeout |-> timeout, deadline |-> deadline,
                ctx |-> InitContext(transport, deadline, timeout),
                elapsed |-> 0, state |-> "initializing", err |-> ErrNone, seconds |-> 0,
                upstream |-> Upstream(transport)]

\* a second passes and the upstream has not answered
ConnTick ==
    /\ Initializing
    /\ ContextLive
    /\ conn.elapsed < MaxClock
    /\ conn' = [conn EXCEPT !.elapsed = @ + 1]

\* the upstream answers the initialize request: the client is returned
ConnAnswer ==
    /\ Initializing
    /\ ContextLive
    /\ conn' = [conn EXCEPT !.state = "open"]

\* the upstream refuses or answers with an error
ConnRefused ==
    /\ Initializing
    /\ ContextLive
    /\ conn' = [conn EXCEPT !.state = "failed",
                            !.err = InitializeError(conn.transport, FALSE),
                            !.upstream = UpstreamAfterError(conn.transport, @, FALSE)]

\* the context of c.Initialize reaches its deadline: Initialize returns
\* context.DeadlineExceeded
ConnDeadlineExceeded ==
    /\ Initializing
    /\ ~ContextLive
    /\ LET err == InitializeError(conn.transport, TRUE)
       IN  conn' = [conn EXCEPT !.state = "failed", !.err = err,
                                !.seconds = IF err = ErrTimeout THEN conn.timeout ELSE 0,
                                !.upstream = UpstreamAfterError(conn.transport, @, TRUE)]

(***************************************************************************)
(* The state after construction (runStartServer): an empty store, two      *)
(* empty proxy MCP servers, an empty tracker, and the tool-group engine    *)
(* subscribed to the catalog's change events.                              *)
(***************************************************************************)
NoOut == [valid |-> "none", tsplit |-> <<>>, psplit |-> <<>>]

NoOp ==
    [op |-> "start", arg |-> <<>>, ret |-> <<>>, err |-> FALSE,
     events |-> <<>>, seen |-> <<>>, writes |-> 0, attempts |-> 0, before |-> <<>>]

NmIdle == [server |-> <<>>, tool |-> <<>>, name |-> <<>>, pname |-> <<>>,
           op |-> "idle", out |-> NoOut]

CatalogInit ==
    /\ dbServers = <<>>
    /\ dbTools = <<>>
    /\ mcpProxyServer = {}
    /\ sseMcpProxyServer = {}
    /\ toolInstances = {}
    /\ toolAdditionCallback = "groups"
    /\ toolDeletionCallback = "groups"
    /\ groups = <<>>
    /\ groupServers = <<>>
    /\ lastOp = NoOp

\* runStartServer has registered the tool-group engine for both kinds of event
SubscribersInit == subscribers = [addition |-> {"groups"}, deletion |-> {"groups"}]

\* no upstream session was opened and no InvokeTool call was made
InvokeInit ==
    /\ sessions = <<>>
    /\ calls = [c \in Callers |-> IdleCall]

\* no setToolsEnabled call is in progress
MutInit == muts = [p \in Mutators |-> IdleMut]

Init == nm = NmIdle /\ CatalogInit /\ InvokeInit /\ MutInit /\ StartInit /\ AuthInit /\ RegistryInit /\ ConnInit /\ SubscribersInit

\* the operation's effects and its record in lastOp
Commit(r, op, arg) ==
    /\ dbTools' = r.w.tools
    /\ mcpProxyServer' = r.w.http
    /\ sseMcpProxyServer' = r.w.sse
    /\ toolInstances' = r.w.inst
    /\ groupServers' = r.w.gsrv
    /\ lastOp' = [op |-> op, arg |-> arg, ret |-> r.ret, err |-> r.err,
                  events |-> r.w.events, seen |-> r.w.seen, writes |-> r.w.writes, attempts |-> r.w.attempts,
                  before |-> groupServers]

\* a plausible slip: the server row is created before the session is opened and
\* is left behind when the session cannot be opened
RegisterMcpServer_RowBeforeSession(name, transport, sessionMode, upstream, failing, sessionFails) ==
    IF validateServerName(name) # "ok" \/ name \in DOMAIN dbServers
    THEN /\ Commit(Result(World, <<>>, TRUE), "register", name)
         /\ UNCHANGED dbServers
    ELSE /\ Commit(IF sessionFails THEN Result(World, <<>>, TRUE)
                   ELSE registerServerTools(World, name, transport, upstream, failing),
                   "register", name)
         /\ dbServers' = (name :> [transport |-> transport, session_mode |-> sessionMode])
                          @@ dbServers

\* RegisterMcpServer: validate the name, open the upstream session, create the
\* server row (names are unique), import the upstream's tools
RegisterMcpServer(name, transport, sessionMode, upstream, failing, sessionFails) ==
    IF validateServerName(name) # "ok" \/ sessionFails \/ name \in DOMAIN dbServers
    THEN /\ Commit(Result(World, <<>>, TRUE), "register", name)
         /\ UNCHANGED dbServers
    ELSE /\ Commit(registerServerTools(World, name, transport, upstream, failing),
                   "register", name)
         /\ dbServers' = (name :> [transport |-> transport, session_mode |-> sessionMode])
                          @@ dbServers

\* a plausible slip: the failed lookup of a name that is not registered is
\* returned as an error
DeregisterMcpServer_MissingIsError(name, deleteFails) ==
    IF name \notin DOMAIN dbServers
    THEN /\ Commit(Result(World, <<>>, TRUE), "deregister", name)
         /\ UNCHANGED dbServers
    ELSE LET r == deregisterServerTools(World, name, deleteFails)
         IN  /\ Commit(r, "deregister", name)
             /\ dbServers' = IF r.err THEN dbServers
                             ELSE [s \in DOMAIN dbServers \ {name} |-> dbServers[s]]

\* DeregisterMcpServer: a name that is not registered is a no-op; otherwise the
\* server's tools are deregistered and then the server row is deleted
DeregisterMcpServer(name, deleteFails) ==
    IF name \notin DOMAIN dbServers
    THEN /\ Commit(Result(World, <<>>, FALSE), "deregister", name)
         /\ UNCHANGED dbServers
    ELSE LET r == deregisterServerTools(World, name, deleteFails)
         IN  /\ Commit(r, "deregister", name)
             /\ dbServers' = IF r.err THEN dbServers
                             ELSE [s \in DOMAIN dbServers \ {name} |-> dbServers[s]]

EnableTools(entity, failAt) ==
    /\ Commit(setToolsEnabled(World, entity, TRUE, failAt), "enable", entity)
    /\ UNCHANGED dbServers

DisableTools(entity, failAt) ==
    /\ Commit(setToolsEnabled(World, entity, FALSE, failAt), "disable", entity)
    /\ UNCHANGED dbServers

\* group names are unique; the group's MCP server starts with the effective set
CreateToolGroup(g, spec) ==
    /\ g \notin DOMAIN groups
    /\ groups' = (g :> spec) @@ groups
    /\ groupServers' = (g :> EffectiveSet(spec, dbTools)) @@ groupServers
    /\ lastOp' = [NoOp EXCEPT !.op = "create_group", !.before = groupServers]
    /\ UNCHANGED <<dbServers, dbTools, mcpProxyServer, sseMcpProxyServer, toolInstances>>

DeleteToolGroup(g) ==
    /\ g \in DOMAIN groups
    /\ groups' = [h \in DOMAIN groups \ {g} |-> groups[h]]
    /\ groupServers' = [h \in DOMAIN groupServers \ {g} |-> groupServers[h]]
    /\ lastOp' = [NoOp EXCEPT !.op = "delete_group", !.before = groupServers]
    /\ UNCHANGED <<dbServers, dbTools, mcpProxyServer, sseMcpProxyServer, toolInstances>>

\* the names and transports RegisterMcpServer is called with: each server comes
\* with an SSE and a non-SSE transport, the rejected name with one
RegisterInputs ==
    {<<<<"a">>, TransportStreamableHTTP, SessionModeStateless>>,
     <<<<"a">>, TransportSSE, SessionModeStateless>>,
     <<<<"b">>, TransportStdio, SessionModeStateless>>,
     <<<<"b">>, TransportSSE, SessionModeStateless>>,
     <<<<"a", "_">>, TransportStdio, SessionModeStateless>>}
\* the same with one transport per server, for the runs that include tool groups
\* or a replaced addition callback
GroupRunInputs ==
    {<<<<"a">>, TransportStreamableHTTP, SessionModeStateless>>,
     <<<<"b">>, TransportSSE, SessionModeStateless>>,
     <<<<"a", "_">>, TransportStdio, SessionModeStateless>>}

\* the number of store writes setToolsEnabled attempts when none fails
SaveAttempts(entity, enabled) == setToolsEnabled(World, entity, enabled, 0).w.attempts

\* the positions whose db.Create fails: none, or one of them (two failures leave
\* what a shorter list with one failure leaves)
CreateFailures(n) == {{}} \cup {{i} : i \in 1..n}

Register(inputs) ==
    \E in \in inputs, sessionFails \in BOOLEAN :
        /\ IF validateServerName(in[1]) # "ok" \/ sessionFails \/ in[1] \in DOMAIN dbServers
           THEN RegisterMcpServer(in[1], in[2], in[3], <<>>, {}, sessionFails)
           ELSE \E upstream \in UpstreamToolLists :
                    /\ Len(dbTools) + Len(upstream) <= MaxToolRows
                    /\ \E failing \in CreateFailures(Len(upstream)) :
                           RegisterMcpServer(in[1], in[2], in[3], upstream, failing, sessionFails)
        /\ UNCHANGED groups

Deregister ==
    \E name \in RegisterNames :
        /\ IF name \in DOMAIN dbServers
           THEN \E deleteFails \in BOOLEAN : DeregisterMcpServer(name, deleteFails)
           ELSE DeregisterMcpServer(name, FALSE)
        /\ UNCHANGED groups

Enable ==
    \E entity \in Entities :
        \E failAt \in 0..SaveAttempts(entity, TRUE) :
            /\ EnableTools(entity, failAt)
            /\ UNCHANGED groups

Disable ==
    \E entity \in Entities :
        \E failAt \in 0..SaveAttempts(entity, FALSE) :
            /\ DisableTools(entity, failAt)
            /\ UNCHANGED groups

CreateGroup == \E g \in GroupNames, spec \in GroupSpecs : CreateToolGroup(g, spec)

DeleteGroup == \E g \in GroupNames : DeleteToolGroup(g)

\* Spec: the catalog operations, run one at a time, with no tool group defined
Next ==
    /\ \/ Register(RegisterInputs)
       \/ Deregister
       \/ Enable
       \/ Disable
    /\ UNCHANGED <<nm, toolAdditionCallback, toolDeletionCallback, invokeVars, mutVars, startVars, authVars, registryVars, connVars, subscriberVars>>

Spec == Init /\ [][Next]_vars

\* SpecGroups: the catalog operations together with the tool-group operations
GroupsNext ==
    /\ \/ Register(GroupRunInputs)
       \/ Deregister
       \/ Enable
       \/ Disable
       \/ CreateGroup
       \/ DeleteGroup
    /\ UNCHANGED <<nm, toolAdditionCallback, toolDeletionCallback, invokeVars, mutVars, startVars, authVars, registryVars, connVars, subscriberVars>>

SpecGroups == Init /\ [][GroupsNext]_vars

(***************************************************************************)
(* SpecNames: the naming functions applied to inputs drawn from bounded    *)
(* sets.  nm.server and nm.tool are the inputs; nm.name and nm.pname are   *)
(* the strings the split works on (the raw input, or the merged canonical  *)
(* name).                                                                  *)
(***************************************************************************)
NamesInit ==
    /\ \E s \in StringsUpTo(ServerChars, MaxServerLen),
          t \in StringsUpTo(ToolChars, MaxToolLen) :
            nm = [server |-> s, tool |-> t, name |-> s, pname |-> s,
                  op |-> "input", out |-> NoOut]
    /\ CatalogInit
    /\ InvokeInit
    /\ MutInit
    /\ StartInit
    /\ AuthInit
    /\ RegistryInit
    /\ ConnInit
    /\ SubscribersInit

\* validateServerName(nm.server)
NmValidate ==
    /\ nm.op = "input"
    /\ nm' = [nm EXCEPT !.op = "validated",
                        !.out = [NoOut EXCEPT !.valid = validateServerName(nm.server)]]

\* mergeServerToolNames / mergeServerPromptNames (nm.server, nm.tool)
NmMerge ==
    /\ nm.op \in {"input", "validated"}
    /\ nm' = [nm EXCEPT !.op = "merged",
                        !.name = mergeServerToolNames(nm.server, nm.tool),
                        !.pname = mergeServerPromptNames(nm.server, nm.tool)]

\* splitServerToolName(nm.name) / splitServerPromptName(nm.pname)
NmSplit ==
    /\ nm.op \in {"input", "validated", "merged"}
    /\ nm' = [nm EXCEPT !.op = IF nm.op = "merged" THEN "split_merged" ELSE "split_raw",
                        !.out = [@ EXCEPT !.tsplit = splitServerToolName(nm.name),
                                          !.psplit = splitServerPromptName(nm.pname)]]

NamesNext ==
    /\ \/ NmValidate
       \/ NmMerge
       \/ NmSplit
    /\ UNCHANGED <<catalogVars, invokeVars, mutVars, startVars, authVars, registryVars, connVars, subscriberVars>>

SpecNames == NamesInit /\ [][NamesNext]_vars

(***************************************************************************)
(* SpecInvoke: servers are registered, one stateful and one stateless, and *)
(* two callers invoke their tools concurrently.                            *)
(***************************************************************************)
InvokeInputs ==
    {<<<<"a">>, TransportStdio, SessionModeStateful>>,
     <<<<"b">>, TransportStreamableHTTP, SessionModeStateless>>}

\* a registration of a server whose upstream lists one tool
RegisterOneTool ==
    \E in \in InvokeInputs :
        /\ in[1] \notin DOMAIN dbServers
        /\ RegisterMcpServer(in[1], in[2], in[3], <<[name |-> <<"a">>, schema |-> TRUE]>>,
                             {}, FALSE)
        /\ UNCHANGED groups

InvokeStart == \E c \in Callers, name \in InvokeNames : InvokeToolStart(c, name)

InvokeOpen == \E c \in Callers, fails \in BOOLEAN : InvokeOpenSession(c, fails)

InvokeCall == \E c \in Callers, fails \in BOOLEAN : InvokeCallTool(c, fails)

InvokeConv == \E c \in Callers, fails \in BOOLEAN : InvokeConvert(c, fails)

InvokeReturn == \E c \in Callers : InvokeToolReturn(c)

InvokeNext ==
    \/ /\ RegisterOneTool
       /\ UNCHANGED <<nm, toolAdditionCallback, toolDeletionCallback, invokeVars, mutVars, startVars, authVars, registryVars, connVars, subscriberVars>>
    \/ /\ \/ InvokeStart
          \/ InvokeOpen
          \/ InvokeCall
          \/ InvokeConv
          \/ InvokeReturn
       /\ UNCHANGED <<nm, catalogVars, mutVars, startVars, authVars, registryVars, connVars, subscriberVars>>

SpecInvoke == Init /\ [][InvokeNext]_vars

(***************************************************************************)
(* SpecInvokeRace: the same, with servers deregistered while calls are in  *)
(* progress.  InvokeTool takes no lock, so a deregistration may run        *)
(* between any two of its steps.                                           *)
(***************************************************************************)
DeregisterRegistered ==
    \E name \in DOMAIN dbServers :
        /\ DeregisterMcpServer(name, FALSE)
        /\ UNCHANGED groups

InvokeRaceNext ==
    \/ InvokeNext
    \/ /\ DeregisterRegistered
       /\ UNCHANGED <<nm, toolAdditionCallback, toolDeletionCallback, invokeVars, mutVars,
                      startVars, authVars, registryVars, connVars, subscriberVars>>

SpecInvokeRace == Init /\ [][InvokeRaceNext]_vars

(***************************************************************************)
(* SpecConcurrent: servers are registered and two callers enable and       *)
(* disable their tools concurrently.                                       *)
(***************************************************************************)
\* the canonical names EnableTools / DisableTools are called with
MutEntities ==
    { mergeServerToolNames(<<"a">>, <<"a">>), mergeServerToolNames(<<"b">>, <<"a">>) }

MutStartStep == \E p \in Mutators, entity \in MutEntities, enabled \in BOOLEAN :
                    MutStart(p, entity, enabled)

MutSaveStep == \E p \in Mutators, fails \in BOOLEAN : MutSave(p, fails)

MutProxyStep == \E p \in Mutators : MutProxy(p)

MutTrackerStep == \E p \in Mutators : MutTracker(p)

MutNotifyStep == \E p \in Mutators : MutNotify(p)

MutReturnStep == \E p \in Mutators : MutReturn(p)

ConcurrentNext ==
    \/ /\ RegisterOneTool
       /\ UNCHANGED <<nm, toolAdditionCallback, toolDeletionCallback, invokeVars, mutVars, startVars, authVars, registryVars, connVars, subscriberVars>>
    \/ /\ \/ MutStartStep
          \/ MutSaveStep
          \/ MutProxyStep
          \/ MutTrackerStep
          \/ MutNotifyStep
          \/ MutReturnStep
       /\ UNCHANGED <<nm, dbServers, toolAdditionCallback, toolDeletionCallback, groups,
                      lastOp, invokeVars, startVars, authVars, registryVars, connVars, subscriberVars>>

SpecConcurrent == Init /\ [][ConcurrentNext]_vars

(***************************************************************************)
(* SpecStart: the start command runs repeatedly on one database, with      *)
(* explicit initialization and requests while a process is serving.        *)
(***************************************************************************)
StartProc == \E env \in EnvModes, enterpriseFlag \in BOOLEAN, prodFlag \in BOOLEAN :
                 StartProcess(env, enterpriseFlag, prodFlag)

StartChk == \E fails \in BOOLEAN : StartCheck(fails)

StartIni == \E fails \in BOOLEAN : StartInitialize(fails)

InitSrv == \E mode \in {ModeDev, ModeEnterprise} : InitServer(mode)

StartNext ==
    /\ \/ StartProc
       \/ StartChk
       \/ StartIni
       \/ StartServe
       \/ InitSrv
       \/ ServeRequest
       \/ StopProcess
    /\ UNCHANGED <<nm, catalogVars, invokeVars, mutVars, authVars, registryVars, connVars, subscriberVars>>

SpecStart == Init /\ [][StartNext]_vars

(***************************************************************************)
(* SpecAuth: the store is initialized, users and MCP clients are managed,  *)
(* and tool calls arrive on the proxy endpoint.                            *)
(***************************************************************************)
\* the tools that proxy calls name
CallNames ==
    { mergeServerToolNames(<<"a">>, <<"a">>), mergeServerToolNames(<<"b">>, <<"a">>) }

\* the bearer tokens that proxy calls carry
CallTokens == GoodTokens \cup GeneratedTokens

AuthInitSrv == \E mode \in {"development", "enterprise"}, generated \in GeneratedTokens :
                   AuthInitServer(mode, generated)

AuthAdmin == \E generated \in GeneratedTokens : AuthCreateAdmin(generated)

\* the token GenerateAccessToken returns when the request carries none
GeneratedFor(token) == IF token = <<>> THEN GeneratedTokens ELSE {Repeat("A", 43)}

AuthNewUser == \E username \in Usernames, token \in TokenInputs :
                   \E generated \in GeneratedFor(token) :
                       AuthCreateUser(UserInput(username, UserRoleUser, token), generated)

AuthSetUser == \E username \in Usernames, token \in TokenInputs :
                   AuthUpdateUser(UserInput(username, UserRoleUser, token))

AuthDelUser == \E username \in Usernames : AuthDeleteUser(username)

AuthNewClient == \E name \in ClientNames, token \in TokenInputs, allow \in AllowInputs :
                     \E generated \in GeneratedFor(token) :
                         AuthCreateClient(ClientInput(name, NoDescription, token, allow),
                                          generated)

AuthSetClient == \E name \in ClientNames, token \in TokenInputs :
                     AuthUpdateClient(ClientInput(name, NoDescription, token, NilAllowList))

AuthDelClient == \E name \in ClientNames, fails \in BOOLEAN : AuthDeleteClient(name, fails)

AuthCall == \E token \in CallTokens, name \in CallNames : ProxyToolCall(token, name)

AuthNext ==
    /\ \/ AuthInitSrv
       \/ AuthAdmin
       \/ AuthNewUser
       \/ AuthSetUser
       \/ AuthDelUser
       \/ AuthNewClient
       \/ AuthSetClient
       \/ AuthDelClient
       \/ AuthCall
    /\ UNCHANGED <<nm, catalogVars, invokeVars, mutVars, proc, starts, registryVars, connVars, subscriberVars>>

SpecAuth == Init /\ [][AuthNext]_vars

(***************************************************************************)
(* SpecRegistry: servers of every transport are registered with and        *)
(* without secrets, and the two endpoints are read.                        *)
(***************************************************************************)
RegisterRequests ==
    {RegisterServerInput(name, TransportStreamableHTTP, "http://u", bearerToken, headers, "", {}) :
        name \in RegistryNames, bearerToken \in BearerTokens, headers \in HeaderMaps}
    \cup
    {RegisterServerInput(name, TransportSSE, "http://u", bearerToken, headers, "", {}) :
        name \in RegistryNames, bearerToken \in BearerTokens, headers \in HeaderMaps}
    \cup
    {RegisterServerInput(name, TransportStdio, "", "", {}, command, env) :
        name \in RegistryNames, command \in {"", "run"}, env \in EnvMaps}

RegistryAdd == \E input \in RegisterRequests : RegistryRegister(input)

RegistryRemove == \E name \in RegistryNames : RegistryDeregister(name)

RegistryNext ==
    /\ \/ RegistryAdd
       \/ RegistryRemove
       \/ ListServers
       \/ GetServerConfigs
    /\ UNCHANGED <<nm, catalogVars, invokeVars, mutVars, startVars, authVars, connVars, subscriberVars>>

SpecRegistry == Init /\ [][RegistryNext]_vars

(***************************************************************************)
(* SpecConn: sessions of every transport are opened under every configured *)
(* timeout and caller deadline, against an upstream that answers, refuses  *)
(* or stays silent.                                                        *)
(***************************************************************************)
ConnStart ==
    \E transport \in Transports, timeout \in InitReqTimeouts, deadline \in CallerDeadlines :
        ConnOpen(transport, timeout, deadline)

ConnNext ==
    /\ \/ ConnStart
       \/ ConnTick
       \/ ConnAnswer
       \/ ConnRefused
       \/ ConnDeadlineExceeded
    /\ UNCHANGED <<nm, catalogVars, invokeVars, mutVars, startVars, authVars, registryVars, subscriberVars>>

SpecConn == Init /\ [][ConnNext]_vars

(***************************************************************************)
(* SpecCallback: the catalog operations with an addition callback that is  *)
(* replaced while the service runs, by the tool-group engine or by a       *)
(* subscriber that returns errors.                                         *)
(***************************************************************************)
\* SetToolAdditionCallback(callback)
SetToolAdditionCallback(callback) ==
    /\ toolAdditionCallback' = callback
    /\ subscribers' = [subscribers EXCEPT !.addition = @ \cup {callback}]
    /\ lastOp' = [NoOp EXCEPT !.op = "set_callback"]
    /\ UNCHANGED <<dbServers, dbTools, mcpProxyServer, sseMcpProxyServer, toolInstances,
                   groups, groupServers>>

SetCallback == \E callback \in AdditionCallbacks : SetToolAdditionCallback(callback)

CallbackNext ==
    /\ \/ Register(GroupRunInputs) /\ UNCHANGED <<toolAdditionCallback, subscriberVars>>
       \/ Deregister /\ UNCHANGED <<toolAdditionCallback, subscriberVars>>
       \/ Enable /\ UNCHANGED <<toolAdditionCallback, subscriberVars>>
       \/ Disable /\ UNCHANGED <<toolAdditionCallback, subscriberVars>>
       \/ SetCallback
    /\ UNCHANGED <<nm, toolDeletionCallback, invokeVars, mutVars, startVars, authVars,
                   registryVars, connVars>>

SpecCallback == Init /\ [][CallbackNext]_vars

(***************************************************************************)
(* NewMCPService: the service is built again on the same store, as at the  *)
(* start of the process.  initMCPProxyServer loads the tools of the store  *)
(* into two new proxy MCP servers and a new tracker.                       *)
(***************************************************************************)
RECURSIVE initProxyLoop(_, _)
initProxyLoop(w, i) ==
    IF i > Len(w.tools) THEN Result(w, <<>>, FALSE)
    ELSE IF ~w.tools[i].enabled THEN initProxyLoop(w, i + 1)
    ELSE IF ~convertToolModelToMcpObject(w.tools[i]) THEN Result(w, <<>>, TRUE)
    ELSE LET canonicalToolName == CanonicalName(w.tools[i])
             transport == dbServers[w.tools[i].server].transport
         IN  initProxyLoop(addToolInstance(AddToolToProxy(w, transport, canonicalToolName),
                                           canonicalToolName),
                           i + 1)

\* the proxies start.go creates and the tracker NewMCPService makes are empty
NewWorld == [World EXCEPT !.http = {}, !.sse = {}, !.inst = {}]

initMCPProxyServer == initProxyLoop(NewWorld, 1)

\* NewMCPService returns the service, or the error of initMCPProxyServer and no
\* service: the start command fails
NewMCPService ==
    /\ Commit(IF initMCPProxyServer.err THEN Result(NewWorld, <<>>, TRUE)
              ELSE initMCPProxyServer,
              "restart", <<>>)
    /\ UNCHANGED <<dbServers, groups>>

\* the process has a service: the last start did not fail in NewMCPService
ServiceRunning == ~(lastOp.op = "restart" /\ lastOp.err)

\* SpecRestart: the catalog operations of a running service, and restarts of
\* the process on the store they leave
RestartNext ==
    /\ \/ ServiceRunning /\ Register(RegisterInputs)
       \/ ServiceRunning /\ Deregister
       \/ ServiceRunning /\ Enable
       \/ ServiceRunning /\ Disable
       \/ NewMCPService
    /\ UNCHANGED <<nm, toolAdditionCallback, toolDeletionCallback, invokeVars, mutVars,
                   startVars, authVars, registryVars, connVars, subscriberVars>>

SpecRestart == Init /\ [][RestartNext]_vars

(***************************************************************************)
(* SpecSubscribers: the catalog operations while callbacks are registered  *)
(* for additions and for deletions.                                        *)
(***************************************************************************)
\* SetToolDeletionCallback(callback)
SetToolDeletionCallback(callback) ==
    /\ toolDeletionCallback' = callback
    /\ subscribers' = [subscribers EXCEPT !.deletion = @ \cup {callback}]
    /\ lastOp' = [NoOp EXCEPT !.op = "set_callback"]
    /\ UNCHANGED <<dbServers, dbTools, mcpProxyServer, sseMcpProxyServer, toolInstances,
                   groups, groupServers, toolAdditionCallback>>

SetDeletionCallback == \E callback \in DeletionCallbacks : SetToolDeletionCallback(callback)

SetAdditionCallback ==
    /\ SetCallback
    /\ UNCHANGED toolDeletionCallback

CatalogStep ==
    /\ \/ Register(GroupRunInputs)
       \/ Deregister
       \/ Enable
       \/ Disable
    /\ UNCHANGED <<toolAdditionCallback, toolDeletionCallback, subscriberVars>>

SubscribersNext ==
    /\ \/ CatalogStep
       \/ SetAdditionCallback
       \/ SetDeletionCallback
    /\ UNCHANGED <<nm, invokeVars, mutVars, startVars, authVars, registryVars, connVars>>

SpecSubscribers == Init /\ [][SubscribersNext]_vars

(***************************************************************************)
(* SpecAccounts: users and MCP clients are created, updated and deleted    *)
(* with requests that set every field of their body, through the services  *)
(* and through the PUT handlers.                                           *)
(***************************************************************************)
\* the access tokens of the requests: none, a valid one, one that is too short
AccountTokens ==
    {<<>>, <<"a", "b", "c", "d", "e", "f", "g", "h">>, <<"a", "b", "c", "d", "e", "f", "g">>}

\* the roles a request body may carry
RoleInputs == {UserRoleAdmin, UserRoleUser}

\* the path parameter of a PUT request on users
PathUsernames == Usernames \cup {""}

\* the allow lists of create requests
AccountAllowInputs == {NilAllowList, AllowList(<< <<"a">> >>)}

\* what an update request carries besides the name and the token
UpdateDescription == <<"u">>
UpdateAllowList == AllowList(<< <<"*">> >>)

AccountsNewUser ==
    \E username \in Usernames, role \in RoleInputs, token \in AccountTokens :
        \E generated \in GeneratedFor(token) :
            AuthCreateUser(UserInput(username, role, token), generated)

AccountsSetUser ==
    \E username \in Usernames, role \in RoleInputs, token \in AccountTokens :
        AuthUpdateUser(UserInput(username, role, token))

AccountsPutUser ==
    \E username \in PathUsernames, body \in Usernames, token \in AccountTokens :
        updateUserHandler(username, UserInput(body, UserRoleAdmin, token))

AccountsNewClient ==
    \E name \in ClientNames, description \in Descriptions, token \in AccountTokens,
       allow \in AccountAllowInputs :
        \E generated \in GeneratedFor(token) :
            AuthCreateClient(ClientInput(name, description, token, allow), generated)

AccountsSetClient ==
    \E name \in ClientNames, token \in AccountTokens :
        AuthUpdateClient(ClientInput(name, UpdateDescription, token, UpdateAllowList))

AccountsPutClient ==
    \E name \in ClientNames, body \in ClientNames, token \in AccountTokens :
        updateMcpClientHandler(name, ClientInput(body, UpdateDescription, token, UpdateAllowList))

AccountsNext ==
    /\ \/ AuthInitSrv
       \/ AccountsNewUser
       \/ AccountsSetUser
       \/ AccountsPutUser
       \/ AuthDelUser
       \/ AccountsNewClient
       \/ AccountsSetClient
       \/ AccountsPutClient
    /\ UNCHANGED <<nm, catalogVars, invokeVars, mutVars, proc, starts, registryVars, connVars,
                   subscriberVars>>

SpecAccounts == Init /\ [][AccountsNext]_vars

(***************************************************************************)
(* Claims about canonical naming (checked under SpecNames).                *)
(***************************************************************************)
\* s contains the separator somewhere
HasSeparator(s) == \E i \in 1..Len(s) : OccursAt(s, serverToolNameSep, i)

\* C1: for every server name s that validateServerName accepts and every short
\* name t (empty, starting with '_' or containing '__' included), splitting the
\* merged canonical name gives back (s, t, ok = true), for tools and for prompts.
C1_SplitMergeRoundTrip ==
    (nm.op = "split_merged" /\ validateServerName(nm.server) = "ok")
        => /\ nm.out.tsplit = <<nm.server, nm.tool, TRUE>>
           /\ nm.out.psplit = <<nm.server, nm.tool, TRUE>>

\* a merged name was split whose server name is valid, contains and does not end
\* with an underscore, and whose short name starts with '_' and contains '__'
C1_Witness ==
    /\ nm.op = "split_merged"
    /\ validateServerName(nm.server) = "ok"
    /\ nm.server = <<"a", "_", "1">>
    /\ nm.tool = <<"_", "_", "a">>
    /\ nm.out.tsplit = <<nm.server, nm.tool, TRUE>>

\* C2: the split cuts at the first '__' only: the server part is the text before
\* the first '__' (no '__' begins inside it or at its last character), the item
\* part is everything after that separator, and a name with no '__' gives
\* (name, "", ok = false).
C2_SplitAt(name, r) ==
    IF HasSeparator(name)
    THEN /\ r[3] = TRUE
         /\ r[1] \o serverToolNameSep \o r[2] = name
         /\ \A i \in 1..Len(r[1]) : ~OccursAt(name, serverToolNameSep, i)
    ELSE r = <<name, <<>>, FALSE>>

C2_SplitOnFirstSeparator ==
    nm.op \in {"split_raw", "split_merged"}
        => /\ C2_SplitAt(nm.name, nm.out.tsplit)
           /\ C2_SplitAt(nm.pname, nm.out.psplit)

\* a name with two separators was split, and the later one stayed in the item part
C2_Witness ==
    /\ nm.op = "split_merged"
    /\ nm.name = <<"a", "_", "_", "_", "_", "a">>
    /\ nm.out.tsplit = <<<<"a">>, <<"_", "_", "a">>, TRUE>>

\* C3: validateServerName accepts a name if and only if it is non-empty, every
\* character is a letter, digit, hyphen or underscore, it contains no '__' and
\* it does not end with '_'; every other name is rejected with an error.
C3_Acceptable(name) ==
    /\ name # <<>>
    /\ \A i \in 1..Len(name) : name[i] \in Letters \cup Digits \cup {"-", "_"}
    /\ ~\E i \in 1..(Len(name) - 1) : name[i] = "_" /\ name[i + 1] = "_"
    /\ name[Len(name)] # "_"

C3_ValidateServerName ==
    nm.op = "validated"
        => /\ (nm.out.valid = "ok") <=> C3_Acceptable(nm.server)
           /\ nm.server \in {<<>>, <<"_">>, <<"_", "_">>, <<"a", "/">>, <<"$", "a">>,
                             <<"_", "_", "a">>, <<"a", "_">>, <<"_", "a", "_">>}
                => nm.out.valid # "ok"

\* a name with a single inner underscore was validated and accepted
C3_Witness ==
    /\ nm.op = "validated"
    /\ nm.server = <<"a", "_", "1">>
    /\ nm.out.valid = "ok"

(***************************************************************************)
(* Claims about the catalog (checked under Spec and SpecGroups).           *)
(***************************************************************************)
HasPrefix(s, prefix) ==
    /\ Len(s) >= Len(prefix)
    /\ SubSeq(s, 1, Len(prefix)) = prefix

\* the canonical prefix 'S__' of server S
CanonicalPrefix(server) == server \o serverToolNameSep

\* ListTools: the canonical names of all rows
ListTools == {CanonicalName(dbTools[i]) : i \in 1..Len(dbTools)}

AllGroupTools == UNION {groupServers[g] : g \in DOMAIN groupServers}

IsCanonical(entity) == splitServerToolName(entity)[3]

ServerOf(entity) == splitServerToolName(entity)[1]

\* the row GetTool resolves a canonical name to: 0 when there is none
RowOf(tools, entity) ==
    FirstTool(tools, splitServerToolName(entity)[1], splitServerToolName(entity)[2])

\* C4: after deregistering server S, no tool whose canonical name starts with
\* 'S__' is returned by ListTools, advertised by either proxy MCP server, held in
\* the tool-instance tracker or exposed by any tool group, even when a group's
\* spec still names S or its tools.
C4_DeregistrationComplete ==
    (lastOp.op = "deregister" /\ ~lastOp.err /\ validateServerName(lastOp.arg) = "ok")
        => \A n \in ListTools \cup mcpProxyServer \cup sseMcpProxyServer
                    \cup toolInstances \cup AllGroupTools :
                ~HasPrefix(n, CanonicalPrefix(lastOp.arg))

\* server a was deregistered while a group whose spec names it was exposing one
\* of its tools, and another server's tool is still exposed
C4_Witness ==
    /\ lastOp.op = "deregister" /\ ~lastOp.err /\ lastOp.arg = <<"a">>
    /\ "g" \in DOMAIN groups
    /\ <<"a">> \in groups["g"].included_servers
    /\ \E n \in lastOp.before["g"] : HasPrefix(n, CanonicalPrefix(<<"a">>))
    /\ lastOp.events # <<>>
    /\ sseMcpProxyServer # {}
    /\ groupServers["g"] # {}

C6_OneProxyPerTool ==
    /\ mcpProxyServer \cap sseMcpProxyServer = {}
    /\ \A n \in sseMcpProxyServer :
          /\ ServerOf(n) \in DOMAIN dbServers
          /\ dbServers[ServerOf(n)].transport = TransportSSE
    /\ \A n \in mcpProxyServer :
          /\ ServerOf(n) \in DOMAIN dbServers
          /\ dbServers[ServerOf(n)].transport \in {TransportStdio, TransportStreamableHTTP}

\* a tool of an SSE upstream was enabled again, one server is on stdio and the
\* other on SSE, and each proxy exposes a tool
C6_Witness ==
    /\ lastOp.op = "enable" /\ ~lastOp.err /\ Len(lastOp.events) = 1
    /\ Len(lastOp.ret) = 1
    /\ lastOp.ret[1] \in sseMcpProxyServer
    /\ mcpProxyServer # {}
    /\ \E s \in DOMAIN dbServers : dbServers[s].transport = TransportStdio

\* C7: no two tool records share the same (server, short name) pair, so no two
\* tools have the same canonical name.
C7_UniqueServerToolPair ==
    \A i, j \in 1..Len(dbTools) :
        (dbTools[i].server = dbTools[j].server /\ dbTools[i].name = dbTools[j].name) => i = j

\* the step just taken is EnableTools (enabled = TRUE) or DisableTools
\* (enabled = FALSE) called with entity
Called(entity, enabled) ==
    /\ lastOp'.op = (IF enabled THEN "enable" ELSE "disable")
    /\ lastOp'.arg = entity

\* entity is the canonical name of a tool whose record is in the given state
ToolIs(entity, enabled) ==
    /\ IsCanonical(entity)
    /\ ServerOf(entity) \in DOMAIN dbServers
    /\ RowOf(dbTools, entity) > 0
    /\ dbTools[RowOf(dbTools, entity)].enabled = enabled

\* C8: enabling an already-enabled tool (and disabling an already-disabled tool)
\* by its canonical name returns [name] without error, writes nothing to the
\* store, leaves both proxies' exposed tool sets and the tool-instance tracker
\* unchanged, and invokes neither the addition nor the deletion callback.
C8_NoChangeIsNoOp ==
    [][\A entity \in Entities, enabled \in BOOLEAN :
          (Called(entity, enabled) /\ ToolIs(entity, enabled))
              => /\ lastOp'.ret = <<entity>>
                 /\ ~lastOp'.err
                 /\ lastOp'.writes = 0
                 /\ lastOp'.events = <<>>
                 /\ UNCHANGED <<dbServers, dbTools, mcpProxyServer, sseMcpProxyServer,
                                toolInstances, groupServers>>]_vars

\* EnableTools was called with the canonical name of a tool that is enabled and
\* exposed: it returned the name, wrote nothing and invoked no callback
C8_Witness ==
    /\ lastOp.op = "enable" /\ ToolIs(lastOp.arg, TRUE)
    /\ lastOp.ret = <<lastOp.arg>> /\ ~lastOp.err
    /\ lastOp.writes = 0 /\ lastOp.events = <<>>
    /\ lastOp.arg \in mcpProxyServer \cup sseMcpProxyServer
    /\ lastOp.arg \in toolInstances

\* the canonical names, in row order, of the rows whose enabled flag differs
\* between two states of the store that hold the same rows
RECURSIVE ChangedFrom(_, _, _)
ChangedFrom(before, after, i) ==
    IF i > Len(before) THEN <<>>
    ELSE IF before[i].enabled # after[i].enabled
         THEN <<CanonicalName(before[i])>> \o ChangedFrom(before, after, i + 1)
         ELSE ChangedFrom(before, after, i + 1)

Changed == ChangedFrom(dbTools, dbTools', 1)

\* C9, as claimed: EnableTools and DisableTools, called with a canonical tool
\* name or a bare server name, return the canonical names of exactly those tools
\* whose enabled flag changed in that call; tools already in the desired state
\* are not in the returned list.
C9_ReturnsExactlyChanged ==
    [][\A entity \in Entities, enabled \in BOOLEAN :
          (Called(entity, enabled) /\ ~lastOp'.err) => lastOp'.ret = Changed]_vars

\* C9, amended: a call that returns no error returns, for a bare server name,
\* the canonical names of exactly those tools whose enabled flag changed in that
\* call, and for a canonical tool name the list [name], whether the flag changed
\* or the tool was already in the desired state (no other tool changes).
C9_ReturnsChangedOrName ==
    [][\A entity \in Entities, enabled \in BOOLEAN :
          (Called(entity, enabled) /\ ~lastOp'.err)
              => IF IsCanonical(entity)
                 THEN /\ lastOp'.ret = <<entity>>
                      /\ Changed \in {<<>>, <<entity>>}
                      /\ (Changed = <<>>) <=> ToolIs(entity, enabled)
                 ELSE lastOp'.ret = Changed]_vars

\* DisableTools was called with a bare server name one of whose two tools was
\* already disabled: it returned the other tool alone
C9_Witness ==
    /\ lastOp.op = "disable" /\ ~lastOp.err /\ ~IsCanonical(lastOp.arg)
    /\ Len(lastOp.ret) = 1
    /\ Len(dbTools) = 2
    /\ \A i \in 1..2 : dbTools[i].server = lastOp.arg /\ ~dbTools[i].enabled
    /\ dbTools[1].name # dbTools[2].name

\* the groups whose spec includes the whole server
GroupsIncluding(server) ==
    {g \in DOMAIN groups : server \in groups[g].included_servers}

\* the canonical names of the server's tool records in a state of the store
ToolsOfServer(tools, server) == SeqToSet(CanonicalNamesOf(tools, server))

\* C10: for a tool group whose spec includes server S (tools the spec excludes
\* set aside): registering S makes all of S's tools appear in the group's MCP
\* server; disabling one of those tools afterwards removes exactly that tool from
\* the group's server and no other; re-enabling it puts it back, so the group's
\* exposed set after disable-then-enable equals the set before.  (Disabling a
\* tool is a successful DisableTools on a tool whose record is enabled, enabling
\* it a successful EnableTools on a tool whose record is disabled.)
C10_RegisterFillsGroup ==
    \A server \in RegisterNames :
        (lastOp'.op = "register" /\ lastOp'.arg = server /\ ~lastOp'.err)
            => \A g \in GroupsIncluding(server) :
                   /\ ToolsOfServer(dbTools', server) \ groups[g].excluded_tools
                          \subseteq groupServers'[g]
                   /\ groupServers'[g] \ groupServers[g] \subseteq ToolsOfServer(dbTools', server)

C10_DisableRemovesOne ==
    \A entity \in Entities :
        (/\ Called(entity, FALSE) /\ ~lastOp'.err /\ IsCanonical(entity)
         /\ ToolIs(entity, TRUE))
            => \A g \in GroupsIncluding(ServerOf(entity)) :
                   groupServers'[g] = groupServers[g] \ {entity}

C10_EnableRestores ==
    \A entity \in Entities :
        (/\ Called(entity, TRUE) /\ ~lastOp'.err /\ IsCanonical(entity)
         /\ ToolIs(entity, FALSE))
            => \A g \in GroupsIncluding(ServerOf(entity)) :
                   /\ groupServers'[g] = groupServers[g] \cup ({entity} \ groups[g].excluded_tools)
                   /\ (/\ lastOp.op = "disable" /\ lastOp.arg = entity /\ ~lastOp.err
                       /\ entity \in lastOp.before[g])
                          => groupServers'[g] = lastOp.before[g]

C10_GroupReactivity ==
    [][C10_RegisterFillsGroup /\ C10_DisableRemovesOne /\ C10_EnableRestores]_vars

\* a group includes server a, which has two tools; one of them was disabled and
\* has just been enabled again: the group lacked it before and exposes both now
C10_Witness ==
    /\ lastOp.op = "enable" /\ ~lastOp.err /\ IsCanonical(lastOp.arg)
    /\ lastOp.events = <<<<"added", lastOp.arg>>>>
    /\ ServerOf(lastOp.arg) = <<"a">>
    /\ "g" \in GroupsIncluding(<<"a">>)
    /\ lastOp.arg \notin lastOp.before["g"]
    /\ lastOp.before["g"] # {}
    /\ groupServers["g"] = lastOp.before["g"] \cup {lastOp.arg}
    /\ groupServers["g"] = ToolsOfServer(dbTools, <<"a">>)

(***************************************************************************)
(* Claims about the group views and about failures during registration     *)
(* (checked under SpecGroups and Spec).                                    *)
(***************************************************************************)
\* C11: in every state between operations, the set of tools a group's MCP server
\* exposes equals the group's effective set: (included_tools plus the enabled
\* tools of the included servers) minus excluded_tools, restricted to the tools
\* that exist and are enabled; a tool listed in both included_tools and
\* excluded_tools is never exposed.
C11_GroupExposesEffectiveSet ==
    \A g \in DOMAIN groups :
        /\ groupServers[g] = EffectiveSet(groups[g], dbTools)
        /\ groupServers[g] \cap (groups[g].included_tools \cap groups[g].excluded_tools) = {}

\* the rows the step appended to the store, as canonical names in row order
NewRowNames == [i \in 1..(Len(dbTools') - Len(dbTools)) |->
                    CanonicalName(dbTools'[Len(dbTools) + i])]

\* C12: when persisting an upstream tool fails during registration, the
\* registration goes on with the remaining tools and succeeds; the proxies, the
\* tool-instance tracker and the addition callback receive the persisted tools,
\* one event per persisted row in row order, and nothing for a tool that was
\* not persisted.
C12_FailedToolIsSkipped ==
    [][(lastOp'.op = "register" /\ lastOp'.attempts > 0)
        => /\ ~lastOp'.err
           /\ Len(dbTools') = Len(dbTools) + lastOp'.writes
           /\ SubSeq(dbTools', 1, Len(dbTools)) = dbTools
           /\ lastOp'.events = [i \in 1..lastOp'.writes |-> <<"added", NewRowNames[i]>>]
           /\ (mcpProxyServer' \cup sseMcpProxyServer')
                  = (mcpProxyServer \cup sseMcpProxyServer) \cup SeqToSet(NewRowNames)
           /\ toolInstances' = toolInstances \cup SeqToSet(NewRowNames)]_vars

\* a registration in which one of two tools failed to persist: it succeeded with
\* one row, one event and one exposed tool
C12_Witness ==
    /\ lastOp.op = "register" /\ ~lastOp.err
    /\ lastOp.attempts = 2 /\ lastOp.writes = 1
    /\ Len(lastOp.events) = 1
    /\ Len(dbTools) = 1
    /\ mcpProxyServer \cup sseMcpProxyServer = {CanonicalName(dbTools[1])}
    /\ toolInstances = {CanonicalName(dbTools[1])}

\* the last registration was of a valid name that is not registered and it
\* returned an error: the upstream session could not be opened
SessionFailed(op, servers) ==
    /\ op.op = "register" /\ op.err
    /\ validateServerName(op.arg) = "ok"
    /\ op.arg \notin DOMAIN servers

\* C13: if the upstream session cannot be opened during registration,
\* RegisterMcpServer returns an error and the store, both proxies and the
\* tool-instance tracker are unchanged: no server row and no tool row exists for
\* that name afterwards.
C13_SessionFailureChangesNothing ==
    [][SessionFailed(lastOp', dbServers)
        => /\ UNCHANGED <<dbServers, dbTools, mcpProxyServer, sseMcpProxyServer,
                          toolInstances, groupServers>>
           /\ lastOp'.arg \notin DOMAIN dbServers'
           /\ \A i \in 1..Len(dbTools') : dbTools'[i].server # lastOp'.arg
           /\ lastOp'.writes = 0 /\ lastOp'.events = <<>>]_vars

\* the session to server b could not be opened while server a was registered
\* with an exposed tool
C13_Witness ==
    /\ SessionFailed(lastOp, dbServers)
    /\ lastOp.arg = <<"b">>
    /\ DOMAIN dbServers = {<<"a">>}
    /\ dbTools # <<>>
    /\ mcpProxyServer \cup sseMcpProxyServer # {}

\* C14: deregistering a server name that is not registered (never registered, or
\* already deregistered) returns no error and changes nothing.
C14_DeregisterMissingIsNoOp ==
    [][(lastOp'.op = "deregister" /\ lastOp'.arg \notin DOMAIN dbServers)
        => /\ ~lastOp'.err
           /\ lastOp'.writes = 0 /\ lastOp'.attempts = 0 /\ lastOp'.events = <<>>
           /\ UNCHANGED <<dbServers, dbTools, mcpProxyServer, sseMcpProxyServer,
                          toolInstances, groups, groupServers>>]_vars

\* server a, not registered, was deregistered while server b, registered, has
\* its tool exposed
C14_Witness ==
    /\ lastOp.op = "deregister" /\ ~lastOp.err /\ lastOp.attempts = 0
    /\ lastOp.arg = <<"a">>
    /\ DOMAIN dbServers = {<<"b">>}
    /\ dbTools # <<>>
    /\ mcpProxyServer \cup sseMcpProxyServer # {}

(***************************************************************************)
(* Claims about upstream sessions (checked under SpecInvoke).              *)
(***************************************************************************)
\* the callers that are using session i: between opening it and returning
UsersOf(i) == {c \in Callers : calls[c].session = i /\ calls[c].pc \in {"call", "convert"}}

\* C15: for a stateless server every InvokeTool call opens its own upstream
\* session, and that session is closed by the time the call returns, whether the
\* tool call succeeded, the upstream call failed or the conversion of the result
\* failed; once all calls have returned no session of a stateless server is open.
C15_StatelessSessionPerCall ==
    /\ \A i \in 1..Len(sessions) :
          sessions[i].mode = SessionModeStateless
              => /\ Cardinality({c \in Callers : calls[c].session = i}) <= 1
                 /\ sessions[i].open <=> UsersOf(i) # {}
    /\ \A c \in Callers :
          (calls[c].pc = "returned" /\ calls[c].mode = SessionModeStateless
             /\ calls[c].session # 0)
              => ~sessions[calls[c].session].open

\* both callers called the stateless server b and have returned, one with an
\* error after its session was opened and one with a result; each had its own
\* session and both sessions are closed
C15_Witness ==
    /\ \A c \in Callers : calls[c].pc = "returned" /\ calls[c].server = <<"b">>
    /\ calls["c1"].err /\ ~calls["c2"].err
    /\ calls["c1"].session # 0 /\ calls["c2"].session # 0
    /\ calls["c1"].session # calls["c2"].session
    /\ \A i \in 1..Len(sessions) : ~sessions[i].open

\* C16: for a server with session_mode = stateful the first tool call creates an
\* upstream session that is not closed when the call completes, and every later
\* call to that server uses the same session instead of opening a new one.
C16_StatefulSessionReused ==
    /\ \A c \in Callers :
          (calls[c].pc = "returned" /\ ~calls[c].err /\ calls[c].mode = SessionModeStateful)
              => sessions[calls[c].session].open
    /\ \A i, j \in 1..Len(sessions) :
          (sessions[i].mode = SessionModeStateful /\ sessions[i].server = sessions[j].server)
              => i = j

\* C17: at no time do two sessions for the same stateful server exist: two
\* concurrent calls that find no session share one initialization.
C17_OneSessionPerStatefulServer ==
    \A i, j \in 1..Len(sessions) :
        (/\ sessions[i].mode = SessionModeStateful
         /\ sessions[i].server = sessions[j].server
         /\ sessions[i].open /\ sessions[j].open)
            => i = j

(***************************************************************************)
(* Claims about concurrent catalog mutations (checked under SpecConcurrent)*)
(***************************************************************************)
\* the callers that are between the read of the flag and the return of a call
\* on a tool of the server
Mutating(server) ==
    {p \in Mutators : muts[p].pc \in MutSteps
                      /\ splitServerToolName(muts[p].entity)[1] = server}

\* C18: catalog mutations that target the same server do not interleave: while
\* one enable/disable call on a server is between its read of the flag and its
\* callback, no other call on that server is.
C18_MutationsSerializedPerServer ==
    \A server \in DOMAIN dbServers : Cardinality(Mutating(server)) <= 1

\* every call has returned, and still a proxy exposes a tool whose row is disabled
\* or hides one whose row is enabled
SettledMismatch ==
    /\ \A p \in Mutators : muts[p].pc = "idle"
    /\ \E i \in 1..Len(dbTools) :
          LET n == CanonicalName(dbTools[i])
          IN  /\ dbTools[i].schema
              /\ dbTools[i].enabled # (n \in mcpProxyServer \cup sseMcpProxyServer)

\* one caller enabled the tool, the other disabled it, and both have returned
\* without an error
EnableAndDisableReturned(p, q) ==
    /\ p # q
    /\ muts[p].pc = "returned" /\ muts[q].pc = "returned"
    /\ muts[p].entity = muts[q].entity
    /\ muts[p].enabled /\ ~muts[q].enabled
    /\ ~muts[p].err /\ ~muts[q].err

\* the proxy of the tool's server and the tracker hold the name exactly when the
\* row says enabled
AgreesWithFlag(i) ==
    LET n == CanonicalName(dbTools[i])
        proxy == IF dbServers[dbTools[i].server].transport = TransportSSE
                 THEN sseMcpProxyServer ELSE mcpProxyServer
    IN  /\ dbTools[i].enabled <=> n \in proxy
        /\ dbTools[i].enabled <=> n \in toolInstances

\* C34: when one enable and one disable of the same tool have run concurrently
\* and both have returned, the tool is exposed in its proxy and kept in the
\* tool-instance tracker if and only if its record says enabled = true.
C34_ConcurrentEnableDisableAgree ==
    \A p, q \in Mutators :
        EnableAndDisableReturned(p, q) => AgreesWithFlag(muts[p].row)

\* the enable and the disable have both returned; the record says enabled while
\* neither the proxy nor the tracker holds the tool
EnabledButWithdrawn ==
    \E p, q \in Mutators :
        /\ EnableAndDisableReturned(p, q)
        /\ dbTools[muts[p].row].enabled
        /\ muts[p].entity \notin mcpProxyServer \cup sseMcpProxyServer
        /\ muts[p].entity \notin toolInstances

\* the enable and the disable have both returned; the record says disabled while
\* the proxy exposes the tool
DisabledButExposed ==
    \E p, q \in Mutators :
        /\ EnableAndDisableReturned(p, q)
        /\ ~dbTools[muts[p].row].enabled
        /\ muts[p].entity \in mcpProxyServer \cup sseMcpProxyServer

(***************************************************************************)
(* Claims about the server lifecycle (checked under SpecStart)             *)
(***************************************************************************)
\* the process starts to serve in this step
BeginsServing == proc.pc # "serving" /\ proc'.pc = "serving"

\* C19: once the config is initialized its stored value never changes; a start
\* whose desired mode differs from the stored mode ends with an error and never
\* serves; a start with the stored mode leaves the config as it was.
C19_ModeImmutable ==
    [][ /\ config.initialized => config' = config
        /\ (proc.pc = "check" /\ config.initialized /\ proc.desired # config.mode
              /\ proc' # proc)
             => proc'.pc = "failed" /\ proc'.err
        /\ (BeginsServing /\ proc.startConfig.initialized)
             => /\ proc.desired = proc.startConfig.mode
                /\ config' = proc.startConfig ]_vars

\* a start in a mode other than the stored one has failed, and another start in
\* the stored mode is possible afterwards
C19_Witness ==
    /\ proc.pc = "failed"
    /\ proc.err
    /\ proc.startConfig.initialized
    /\ proc.desired \in {ModeDev, ModeEnterprise}
    /\ proc.desired # proc.startConfig.mode
    /\ config = proc.startConfig

\* C20: on an uninitialized store a development start has initialized the config
\* to development, and created no user, by the time it serves; an enterprise
\* start leaves the config uninitialized, with no admin and no token, until the
\* explicit init operation has been performed.
C20_StartOnUninitializedStore ==
    [][ /\ (BeginsServing /\ ~proc.startConfig.initialized /\ proc.desired = ModeDev)
             => /\ config' = [initialized |-> TRUE, mode |-> ModeDev]
                /\ users' = proc.startUsers
                /\ users' = {}
        /\ (~proc'.startConfig.initialized /\ proc'.desired = ModeEnterprise
              /\ proc'.pc \in {"check", "init", "ready", "serving"} /\ proc'.inits = 0)
             => /\ config' = Uninitialized
                /\ users' = {}
        /\ (proc.pc = "serving" /\ ~config.initialized /\ proc'.inits = 1 /\ proc.inits = 0)
             => /\ config'.initialized
                /\ (config'.mode = ModeEnterprise <=> AdminUser \in users') ]_vars

\* a development process has served a request on a store it initialized itself
C20_Witness ==
    /\ proc.pc = "serving"
    /\ ~proc.startConfig.initialized
    /\ proc.desired = ModeDev
    /\ config = [initialized |-> TRUE, mode |-> ModeDev]
    /\ users = {}
    /\ proc.served > 0

\* an enterprise process is serving on a store that is still uninitialized
EnterpriseServingUninitialized ==
    /\ proc.pc = "serving"
    /\ proc.desired = ModeEnterprise
    /\ proc.inits = 0
    /\ config = Uninitialized
    /\ users = {}

\* the explicit init operation has initialized the store of an enterprise
\* process and created the admin
EnterpriseInitialized ==
    /\ proc.pc = "serving"
    /\ proc.desired = ModeEnterprise
    /\ ~proc.startConfig.initialized
    /\ proc.inits = 1
    /\ config = [initialized |-> TRUE, mode |-> ModeEnterprise]
    /\ AdminUser \in users

(***************************************************************************)
(* Claims about users, MCP clients and access (checked under SpecAuth)     *)
(***************************************************************************)
Admins(us) == {u \in us : u.role = "admin"}

\* the access operation of this step
Did(op) == authOp' # authOp /\ authOp'.op = op

\* C21: after enterprise initialization exactly one user has the role admin,
\* whatever CreateAdminUser, CreateUser, UpdateUser and DeleteUser do: a second
\* CreateAdminUser fails, and DeleteUser on the admin returns an error and
\* leaves the admin record, with its token, in the store.
C21_ExactlyOneAdmin ==
    [][ /\ (config'.initialized /\ config'.mode = "enterprise")
             => Cardinality(Admins(users')) = 1
        /\ (authOp'.op = "createAdmin" /\ EnterpriseReady)
             => authOp'.err /\ users' = users
        /\ (authOp'.op = "deleteUser" /\ authOp'.name = "admin" /\ EnterpriseReady)
             => authOp'.err /\ users' = users /\ Admins(users') = Admins(users) ]_vars

\* DeleteUser on the admin has returned an error while another user exists
C21_Witness ==
    /\ authOp.op = "deleteUser"
    /\ authOp.name = "admin"
    /\ authOp.err
    /\ Cardinality(Admins(users)) = 1
    /\ Cardinality(users) = 2

\* the clients that hold the token of the last proxy call
CallingClients(cs) == {c \in cs : c.token = authOp.token}

\* the allow list names the server of the called tool, or the wildcard
Allows(c, tool) ==
    LET listed == {c.allow[i] : i \in DOMAIN c.allow}
    IN  <<"*">> \in listed \/ Cut(tool, <<"_", "_">>)[1] \in listed

\* C22: in enterprise mode a proxy tool call that carries the token of an MCP
\* client is permitted only if the client's allow list holds the server name
\* split from the canonical tool name, or the wildcard; any other call is
\* rejected as forbidden before the upstream is reached.
C22_AllowListGatesProxyCalls ==
    (authOp.op = "call" /\ EnterpriseReady /\ CallingClients(clients) # {})
        => \A c \in CallingClients(clients) :
              /\ authOp.outcome = "ok" => Allows(c, authOp.tool)
              /\ ~Allows(c, authOp.tool) => authOp.outcome = "forbidden" /\ authOp.err

\* a client allowed on server a has been rejected for a tool of server b
C22_Witness ==
    /\ authOp.op = "call"
    /\ authOp.outcome = "forbidden"
    /\ authOp.tool = <<"b", "_", "_", "a">>
    /\ \E c \in CallingClients(clients) : c.allow = << <<"a">> >>

\* C23: an MCP client created without an allow list is stored with an empty
\* allow list; a stored allow list never changes while the client exists, and a
\* client with an empty allow list is refused every proxy call in enterprise mode.
C23_NoAllowListNoAccess ==
    [][ /\ \A name \in ClientNames, token \in TokenInputs, generated \in GeneratedTokens :
              (/\ authOp'.op = "createClient" /\ authOp'.name = name /\ ~authOp'.err
               /\ AuthCreateClient(ClientInput(name, NoDescription, token, NilAllowList), generated))
                 => \A c \in ClientNamed(clients', name) : c.allow = <<>>
        /\ \A c \in clients, d \in clients' : c.name = d.name => d.allow = c.allow
        /\ (authOp'.op = "call" /\ EnterpriseReady)
              => \A c \in clients' :
                    (c.token = authOp'.token /\ c.allow = <<>>)
                       => authOp'.outcome = "forbidden" ]_vars

\* a client with an empty allow list has been refused a call
C23_Witness ==
    /\ authOp.op = "call"
    /\ authOp.outcome = "forbidden"
    /\ \E c \in CallingClients(clients) : c.allow = <<>>

\* every token a client can hold
ClientTokens == GoodTokens \cup GeneratedTokens

\* DeleteClient fails only when the database does; otherwise it removes the
\* named client and nothing else, also when there is no such client
DeleteClientRemovesOnlyNamed ==
    /\ (Did("deleteClient") /\ authOp'.outcome # "dbError") => ~authOp'.err
    /\ (Did("deleteClient") /\ ~authOp'.err)
          => /\ clients' = {c \in clients : c.name # authOp'.name}
             /\ GetClientByToken(clients', authOp'.token) = {}

\* C24 as stated: after DeleteClient has returned, the token of the deleted
\* client identifies no client unless a new client is created with it.
C24_RevokedUntilCreated ==
    [][ /\ DeleteClientRemovesOnlyNamed
        /\ (authOp.op = "deleteClient" /\ ~authOp.err /\ authOp.token # <<>>
              /\ GetClientByToken(clients', authOp.token) # {})
             => authOp'.op = "createClient" ]_vars

\* C24 amended: DeleteClient is idempotent and revokes at once; a token that
\* identifies no client identifies one again only through a client created
\* with that token or an existing client updated to it.
C24_RevokedUntilReassigned ==
    [][ /\ DeleteClientRemovesOnlyNamed
        /\ \A token \in ClientTokens :
              (GetClientByToken(clients, token) = {} /\ GetClientByToken(clients', token) # {})
                 => /\ authOp'.op \in {"createClient", "updateClient"}
                    /\ ~authOp'.err ]_vars

\* a client has just been deleted while another client remains
C24_Witness ==
    /\ authOp.op = "deleteClient"
    /\ ~authOp.err
    /\ authOp.token \in GoodTokens
    /\ GetClientByToken(clients, authOp.token) = {}
    /\ clients # {}

\* C25: CreateUser, UpdateUser, CreateClient and UpdateClient given a custom
\* token shorter than 8 bytes or with a whitespace character return an error
\* and leave users and clients as they were.
C25_InvalidTokenRejected ==
    [][ (authOp' # authOp /\ authOp'.kind = "bad"
           /\ authOp'.op \in {"createUser", "updateUser", "createClient", "updateClient"})
          => authOp'.err /\ users' = users /\ clients' = clients ]_vars

\* an update of an existing client with an invalid token has been refused
C25_Witness ==
    /\ authOp.op = "updateClient"
    /\ authOp.kind = "bad"
    /\ authOp.err
    /\ ClientNamed(clients, authOp.name) # {}

\* C26: no two MCP clients hold the same access token, tokens supplied through
\* CreateClient and UpdateClient included.
C26_ClientTokenUnique ==
    \A c \in clients, d \in clients : c.token = d.token => c = d

\* an update to a custom token that another client holds has been refused
C26_Witness ==
    /\ authOp.op = "updateClient"
    /\ authOp.kind = "good"
    /\ authOp.err
    /\ ClientNamed(clients, authOp.name) # {}
    /\ \E c \in clients : c.name # authOp.name /\ c.token \in GoodTokens

(***************************************************************************)
(* Claims about the endpoints that list servers (checked under             *)
(* SpecRegistry)                                                           *)
(***************************************************************************)
\* the record without its secrets: no bearer token, no custom headers
Redact(record) ==
    [record EXCEPT !.config =
        [k \in DOMAIN record.config \ {"bearer_token", "headers"} |-> record.config[k]]]

\* the record with other secrets in the same places
OtherSecrets(record) ==
    [record EXCEPT !.config =
        [k \in DOMAIN record.config |->
            IF k = "bearer_token" THEN "another"
            ELSE IF k = "headers" THEN {<<"X-Api-Key", "another">>}
            ELSE record.config[k]]]

\* the stored secret of a record, read from its configuration
StoredSecret(record, key, zero) ==
    IF key \in DOMAIN record.config THEN record.config[key] ELSE zero

\* C27: the list-servers response is the same for registries that differ only
\* in bearer tokens and custom headers, and the server_configs response holds
\* the stored bearer token and headers of every server.
C27_ListOmitsSecretsConfigsHoldThem ==
    [][ /\ (response' # response /\ response'.endpoint = "servers")
             => /\ response'.body = listServersHandler([i \in DOMAIN registry |-> Redact(registry[i])])
                /\ response'.body =
                      listServersHandler([i \in DOMAIN registry |-> OtherSecrets(registry[i])])
        /\ (response' # response /\ response'.endpoint = "server_configs")
             => /\ Len(response'.body) = Len(registry)
                /\ \A i \in DOMAIN registry :
                      /\ response'.body[i].name = registry[i].name
                      /\ response'.body[i].bearer_token = StoredSecret(registry[i], "bearer_token", "")
                      /\ response'.body[i].headers = StoredSecret(registry[i], "headers", {}) ]_vars

\* the servers were listed while a streamable HTTP server with a bearer token
\* and custom headers and an SSE server with a bearer token are registered
C27_Witness ==
    /\ response.endpoint = "servers"
    /\ Len(response.body) = 2
    /\ \E i \in DOMAIN registry :
          /\ registry[i].transport = TransportStreamableHTTP
          /\ StoredSecret(registry[i], "bearer_token", "") # ""
          /\ StoredSecret(registry[i], "headers", {}) # {}
    /\ \E i \in DOMAIN registry :
          /\ registry[i].transport = TransportSSE
          /\ StoredSecret(registry[i], "bearer_token", "") # ""

\* the configurations were read while servers with secrets are registered
ConfigsReadWithSecrets ==
    /\ response.endpoint = "server_configs"
    /\ \E i \in DOMAIN response.body :
          response.body[i].bearer_token # "" /\ response.body[i].headers # {}

(***************************************************************************)
(* Claims about the initialization of upstream sessions.                   *)
(***************************************************************************)
\* the upstream has stayed silent for the configured number of seconds
SilentForTimeout == conn.state # "none" /\ conn.elapsed >= conn.timeout

TimedOut == conn.state = "failed" /\ conn.err = ErrTimeout /\ conn.seconds = conn.timeout

\* C28: for every transport, when the upstream has not answered within the
\* configured init timeout, the session creation does not wait any longer and
\* has failed with the timeout error that names the configured seconds,
\* whether or not the caller's context has a deadline.
C28_InitBoundedByTimeout ==
    /\ Initializing => conn.elapsed <= conn.timeout
    /\ (SilentForTimeout /\ ~Initializing) => TimedOut

\* the same statement for the two transports that derive the init context
C28_BoundedForHTTPAndStdio ==
    conn.transport # TransportSSE => C28_InitBoundedByTimeout

\* a streamable-http or stdio session timed out under a caller without a deadline
TimedOutWithoutCallerDeadline ==
    /\ conn.transport \in {TransportStreamableHTTP, TransportStdio}
    /\ conn.deadline = NoDeadline
    /\ TimedOut

\* an SSE session still waits after the configured seconds have passed
SSEStillWaiting ==
    /\ conn.transport = TransportSSE
    /\ conn.deadline = NoDeadline
    /\ Initializing
    /\ conn.elapsed > conn.timeout

\* newMcpServerSession has returned an error to its caller
InitializationFailed == conn.state = "failed"

\* C37: when the initialization of an upstream session fails, by a handshake
\* error or by a timeout, no upstream connection and no stdio child process
\* created for the attempt is still open once the error is returned.
C37_NothingLeftOpenAfterFailure ==
    InitializationFailed => conn.upstream \notin {"child", "stream"}

\* the initialization of a stdio server timed out and the child process spawned
\* for it is still running
ChildLeftRunning ==
    /\ InitializationFailed
    /\ conn.transport = TransportStdio /\ conn.err = ErrTimeout
    /\ conn.upstream = "child"

\* the handshake with an SSE server failed and the stream opened for it is
\* still open
StreamLeftOpen ==
    /\ InitializationFailed
    /\ conn.transport = TransportSSE /\ conn.err = ErrInitialize
    /\ conn.upstream = "stream"


(***************************************************************************)
(* Claims about a failing addition callback (checked under SpecCallback).  *)
(***************************************************************************)
\* the tools the step announced to the addition callback
Announced(op) == {op.events[i][2] : i \in {j \in 1..Len(op.events) : op.events[j][1] = "added"}}

\* the step is a registration or an enable during which the addition callback
\* returned an error
CallbackFailed ==
    /\ toolAdditionCallback = "failing"
    /\ lastOp'.op \in {"register", "enable"}
    /\ Announced(lastOp') \cap RejectedTools # {}

\* the tool is persisted with enabled = true
PersistedEnabled(tools, name) ==
    \E i \in 1..Len(tools) : CanonicalName(tools[i]) = name /\ tools[i].enabled

\* the rows the call had to enable and did not reach
LeftDisabled(entity) ==
    {i \in 1..Len(dbTools') :
        /\ ~dbTools'[i].enabled
        /\ IF IsCanonical(entity) THEN i = RowOf(dbTools, entity)
           ELSE dbTools'[i].server = entity}

\* C29: an error of the tool-addition callback never fails the catalog
\* operation.  Every tool announced in the step, rejected or not, is persisted
\* as enabled, exposed by a proxy and present in the tracker; a registration
\* succeeds and has announced every row it created; an enable fails only when a
\* store write failed or a schema did not convert, and one that succeeds has left
\* no tool of its entity disabled.
C29_CallbackErrorNeverFailsOperation ==
    [][CallbackFailed
        => /\ \A name \in Announced(lastOp') :
                 /\ PersistedEnabled(dbTools', name)
                 /\ name \in mcpProxyServer' \cup sseMcpProxyServer'
                 /\ name \in toolInstances'
           /\ lastOp'.op = "register"
                 => /\ ~lastOp'.err
                    /\ Len(dbTools') = Len(dbTools) + lastOp'.writes
                    /\ lastOp'.events = [i \in 1..lastOp'.writes |-> <<"added", NewRowNames[i]>>]
           /\ lastOp'.op = "enable"
                 => /\ lastOp'.err
                        => \/ lastOp'.attempts > lastOp'.writes
                           \/ \E i \in 1..Len(dbTools') :
                                  /\ dbTools'[i].enabled /\ ~dbTools[i].enabled
                                  /\ ~convertToolModelToMcpObject(dbTools'[i])
                    /\ ~lastOp'.err => LeftDisabled(lastOp'.arg) = {}]_vars

\* a registration of two tools under the failing subscriber: the first tool was
\* rejected by the callback, and both are persisted, exposed and tracked
C29_Witness ==
    /\ toolAdditionCallback = "failing"
    /\ lastOp.op = "register" /\ ~lastOp.err
    /\ Len(lastOp.events) = 2
    /\ lastOp.events[1][2] \in RejectedTools
    /\ lastOp.events[2][2] \notin RejectedTools
    /\ \A name \in Announced(lastOp) :
           /\ PersistedEnabled(dbTools, name)
           /\ name \in mcpProxyServer \cup sseMcpProxyServer
           /\ name \in toolInstances

\* a server-wide enable under the failing subscriber that enabled a rejected
\* tool and then another one
EnabledPastCallbackError ==
    /\ toolAdditionCallback = "failing"
    /\ lastOp.op = "enable" /\ ~lastOp.err
    /\ Len(lastOp.events) = 2
    /\ lastOp.events[1][2] \in RejectedTools
    /\ Announced(lastOp) \subseteq mcpProxyServer \cup sseMcpProxyServer

(***************************************************************************)
(* Claims about the proxies and the store (checked under SpecRestart).     *)
(***************************************************************************)
\* the tools exposed by the proxy that serves the transport
ProxyOf(transport) ==
    IF transport = TransportSSE THEN sseMcpProxyServer ELSE mcpProxyServer

\* the row is enabled, its server is registered, and the proxy of the server's
\* transport does not expose its canonical name
EnabledNotExposed(i) ==
    /\ dbTools[i].enabled
    /\ dbTools[i].server \in DOMAIN dbServers
    /\ CanonicalName(dbTools[i]) \notin ProxyOf(dbServers[dbTools[i].server].transport)

\* C30: between catalog operations, every tool record with enabled = true whose
\* server is registered is exposed under its canonical name by the proxy that
\* matches its server's transport, also after an EnableTools that returned an
\* error and after the service was built again from the store.
C30_EnabledToolsExposed ==
    ServiceRunning => \A i \in 1..Len(dbTools) : ~EnabledNotExposed(i)

\* EnableTools returned an error and left a record enabled that no proxy exposes
EnabledNotExposedAfterEnableError ==
    /\ lastOp.op = "enable" /\ lastOp.err
    /\ \E i \in 1..Len(dbTools) :
           /\ EnabledNotExposed(i)
           /\ CanonicalName(dbTools[i]) \notin mcpProxyServer \cup sseMcpProxyServer

\* after a service was built from the store, the enabled records are exposed
ExposedAfterRestart ==
    (lastOp.op = "restart" /\ ~lastOp.err) => \A i \in 1..Len(dbTools) : ~EnabledNotExposed(i)

\* a service was built from a store that holds an enabled and a disabled record
RestartedWithTools ==
    /\ lastOp.op = "restart" /\ ~lastOp.err
    /\ \E i, j \in 1..Len(dbTools) : dbTools[i].enabled /\ ~dbTools[j].enabled
    /\ mcpProxyServer \cup sseMcpProxyServer # {}

\* DisableTools of a name that two records of one server carry left the second
\* record enabled and removed the name from the proxy
EnabledNotExposedAfterDisable ==
    /\ lastOp.op = "disable" /\ ~lastOp.err
    /\ \E i \in 1..Len(dbTools) : EnabledNotExposed(i)

\* every record's schema converts and no two records share a canonical name
ConvertibleAndUnique ==
    /\ \A i \in 1..Len(dbTools) : convertToolModelToMcpObject(dbTools[i])
    /\ \A i, j \in 1..Len(dbTools) :
           CanonicalName(dbTools[i]) = CanonicalName(dbTools[j]) => i = j

\* on such a store the enabled records are exposed
ExposedWhenConvertibleAndUnique ==
    ConvertibleAndUnique => \A i \in 1..Len(dbTools) : ~EnabledNotExposed(i)

(***************************************************************************)
(* Claims about the server lookup of InvokeTool (checked under             *)
(* SpecInvokeRace).                                                        *)
(***************************************************************************)
\* caller c began a call in this step
Began(c) == calls[c].pc = "idle" /\ calls'[c].pc # "idle"

\* the name has no separator, or its server part has no record in the store
NoSuchServer(name) ==
    ~splitServerToolName(name)[3] \/ splitServerToolName(name)[1] \notin DOMAIN dbServers

\* the call of c has returned an error and has opened no session
FailedWithoutSession(c) ==
    /\ calls'[c].pc = "returned" /\ calls'[c].err
    /\ calls'[c].session = 0
    /\ sessions' = sessions

\* a session was opened in this step
SessionOpened == Len(sessions') = Len(sessions) + 1

\* C31, as claimed: InvokeTool on a name without separator or with an
\* unregistered server part returns an error and opens no session, and no
\* session is ever opened for a server that has no record in the store.
C31_NoSessionWithoutRecord ==
    [][/\ \A c \in Callers :
            (Began(c) /\ NoSuchServer(calls'[c].name)) => FailedWithoutSession(c)
       /\ SessionOpened => sessions'[Len(sessions')].server \in DOMAIN dbServers]_vars

\* C31, amended: InvokeTool on a name without separator or with an unregistered
\* server part returns an error and opens no session; every session is opened
\* by a call that found the record of the session's server in the store when it
\* looked the server up (the record may have been deregistered since).
C31_NoSessionWithoutLookup ==
    [][/\ \A c \in Callers :
            /\ (Began(c) /\ NoSuchServer(calls'[c].name)) => FailedWithoutSession(c)
            /\ (Began(c) /\ calls'[c].pc = "open")
                  => /\ calls'[c].server \in DOMAIN dbServers
                     /\ calls'[c].server = splitServerToolName(calls'[c].name)[1]
       /\ SessionOpened
            => \E c \in Callers :
                  /\ calls[c].pc = "open" /\ calls'[c].pc = "call"
                  /\ calls'[c].session = Len(sessions')
                  /\ sessions'[Len(sessions')].server = calls[c].server]_vars

\* one call was refused for a name without separator and one for a server that
\* is not registered while another server is; neither opened a session
C31_Witness ==
    /\ calls["c1"].pc = "returned" /\ calls["c1"].err /\ calls["c1"].session = 0
    /\ ~splitServerToolName(calls["c1"].name)[3]
    /\ calls["c2"].pc = "returned" /\ calls["c2"].err /\ calls["c2"].session = 0
    /\ splitServerToolName(calls["c2"].name)[3]
    /\ splitServerToolName(calls["c2"].name)[1] \notin DOMAIN dbServers
    /\ dbServers # <<>>
    /\ sessions = <<>>

\* a session is open for a server that was deregistered after the call had
\* looked it up
SessionOfDeregisteredServer ==
    \E i \in 1..Len(sessions) : sessions[i].open /\ sessions[i].server \notin DOMAIN dbServers

(***************************************************************************)
(* Claims about the subscribers of change events (checked under            *)
(* SpecSubscribers).                                                       *)
(***************************************************************************)
\* the events of one kind the step produced, in order
RECURSIVE EventsOfKind(_, _)
EventsOfKind(events, kind) ==
    IF events = <<>> THEN <<>>
    ELSE IF Head(events)[1] = kind
         THEN <<Head(events)>> \o EventsOfKind(Tail(events), kind)
         ELSE EventsOfKind(Tail(events), kind)

\* what a callback receives in the step: notifyToolAddition and notifyToolDeletion
\* invoke the one function the service's field holds at that moment
DeliveredTo(callback, kind) ==
    IF callback = (IF kind = "added" THEN toolAdditionCallback ELSE toolDeletionCallback)
    THEN EventsOfKind(lastOp'.events, kind)
    ELSE <<>>

\* the step is a catalog operation
CatalogOperation == lastOp'.op \in {"register", "deregister", "enable", "disable"}

\* C32: every callback registered for additions receives every later tool
\* addition, and every callback registered for deletions every later removal,
\* also when two of them have been registered.
C32_EveryRegisteredSubscriberNotified ==
    [][CatalogOperation
        => /\ \A callback \in subscribers.addition :
                 DeliveredTo(callback, "added") = EventsOfKind(lastOp'.events, "added")
           /\ \A callback \in subscribers.deletion :
                 DeliveredTo(callback, "removed") = EventsOfKind(lastOp'.events, "removed")]_vars

\* with one callback registered, it receives every event
OnlySubscriberNotified ==
    [][(CatalogOperation /\ Cardinality(subscribers.addition) = 1
            /\ Cardinality(subscribers.deletion) = 1)
        => /\ \A callback \in subscribers.addition :
                 DeliveredTo(callback, "added") = EventsOfKind(lastOp'.events, "added")
           /\ \A callback \in subscribers.deletion :
                 DeliveredTo(callback, "removed") = EventsOfKind(lastOp'.events, "removed")]_vars

\* a tool was removed after a second deletion callback had been registered, and
\* the tool-group engine, registered first, is no longer the one that is invoked
FirstSubscriberReplaced ==
    /\ subscribers.deletion = DeletionCallbacks
    /\ toolDeletionCallback # "groups"
    /\ lastOp.op \in {"deregister", "disable"}
    /\ EventsOfKind(lastOp.events, "removed") # <<>>

(***************************************************************************)
(* Claims about the moment change events are delivered (checked under      *)
(* Spec).                                                                  *)
(***************************************************************************)
\* the row of the server a canonical name belongs to, before or after the step
\* (a registration creates the row, a deregistration removes it)
ServerRowOfTool(name) ==
    LET server == splitServerToolName(name)[1]
    IN  IF server \in DOMAIN dbServers THEN dbServers[server] ELSE dbServers'[server]

\* the name was in the proxy that serves its server when the callback ran
SeenInProxy(o, name) ==
    IF ServerRowOfTool(name).transport = TransportSSE THEN o.sse ELSE o.http

\* the i-th callback of the step ran with the state it describes in place
DeliveredInPlace(i) ==
    LET e == lastOp'.events[i]
        o == lastOp'.seen[i]
    IN  IF e[1] = "added"
        THEN o[1].stored /\ o[1].enabled /\ SeenInProxy(o[1], e[2]) /\ o[1].inst
        ELSE \A k \in 1..Len(e[2]) :
                ~o[k].enabled /\ ~SeenInProxy(o[k], e[2][k]) /\ ~o[k].inst

Exposed == mcpProxyServer \cup sseMcpProxyServer

\* how often the step's callbacks of one kind were invoked for a name
RECURSIVE TimesNotified(_, _, _)
TimesNotified(events, kind, name) ==
    IF events = <<>> THEN 0
    ELSE (IF Head(events)[1] # kind THEN 0
          ELSE IF kind = "added" THEN (IF Head(events)[2] = name THEN 1 ELSE 0)
          ELSE Cardinality({k \in 1..Len(Head(events)[2]) : Head(events)[2][k] = name}))
         + TimesNotified(Tail(events), kind, name)

\* every name the step exposed or withdrew had its callback invoked once
EachTransitionOnce ==
    /\ \A name \in Exposed' \ Exposed : TimesNotified(lastOp'.events, "added", name) = 1
    /\ \A name \in Exposed \ Exposed' : TimesNotified(lastOp'.events, "removed", name) = 1

\* C33: a change event is delivered after the state it describes is in place:
\* the addition callback for n runs when n is persisted, exposed in its proxy and
\* in the tool-instance tracker; the deletion callback for ns runs when each of
\* them is absent from the store's enabled set, the proxy and the tracker; every
\* transition fires its callback exactly once, before the operation returns.
C33_EventsAfterStateInPlace ==
    [][CatalogOperation
        => /\ \A i \in 1..Len(lastOp'.events) : DeliveredInPlace(i)
           /\ EachTransitionOnce]_vars

\* no two rows of the store share a canonical name, before or after the step
NamesUnique ==
    /\ \A i, j \in 1..Len(dbTools) :
           CanonicalName(dbTools[i]) = CanonicalName(dbTools[j]) => i = j
    /\ \A i, j \in 1..Len(dbTools') :
           CanonicalName(dbTools'[i]) = CanonicalName(dbTools'[j]) => i = j

\* on stores whose rows have distinct names the events are delivered in place, once
InPlaceWhenNamesUnique ==
    [][(CatalogOperation /\ NamesUnique)
        => /\ \A i \in 1..Len(lastOp'.events) : DeliveredInPlace(i)
           /\ EachTransitionOnce]_vars

\* the order of the steps holds on every store: what can fail is the store's
\* enabled set at a deletion and the number of callbacks per name
OrderOfSteps ==
    [][CatalogOperation
        => \A i \in 1..Len(lastOp'.events) :
              LET e == lastOp'.events[i]
                  o == lastOp'.seen[i]
              IN  IF e[1] = "added"
                  THEN o[1].stored /\ o[1].enabled /\ SeenInProxy(o[1], e[2]) /\ o[1].inst
                  ELSE \A k \in 1..Len(e[2]) : ~SeenInProxy(o[k], e[2][k]) /\ ~o[k].inst]_vars

\* one of two enabled rows of a name was disabled: the deletion callback ran for
\* the name while the store still holds an enabled row of it
RemovedWhileEnabled ==
    /\ lastOp.op = "disable" /\ ~lastOp.err
    /\ Len(lastOp.events) = 1
    /\ lastOp.seen[1][1].enabled

\* a registration invoked the addition callback twice for one name
AddedTwice ==
    /\ lastOp.op = "register"
    /\ Len(lastOp.events) = 2
    /\ lastOp.events[1] = lastOp.events[2]

(***************************************************************************)
(* Claims about operations that return an error part-way (checked under    *)
(* Spec and SpecGroups).                                                   *)
(***************************************************************************)
\* the step is EnableTools or DisableTools on a bare server name that returned
\* an error
ServerWideError ==
    /\ lastOp'.op \in {"enable", "disable"}
    /\ ~splitServerToolName(lastOp'.arg)[3]
    /\ lastOp'.err

\* C35: enabling or disabling all tools of a server is all-or-nothing: when
\* EnableTools or DisableTools on a bare server name returns an error, no tool
\* changed its enabled flag, no proxy was changed and no callback was fired.
C35_ServerWideAllOrNothing ==
    [][ServerWideError
        => /\ dbTools' = dbTools
           /\ mcpProxyServer' = mcpProxyServer
           /\ sseMcpProxyServer' = sseMcpProxyServer
           /\ lastOp'.events = <<>>]_vars

\* what does hold: a call that fails at its first store write changes nothing
FirstWriteFailureChangesNothing ==
    [][(ServerWideError /\ lastOp'.writes = 0)
        => /\ dbTools' = dbTools
           /\ mcpProxyServer' = mcpProxyServer
           /\ sseMcpProxyServer' = sseMcpProxyServer
           /\ lastOp'.events = <<>>]_vars

\* DisableTools on a server returned an error after it had disabled one tool,
\* withdrawn it from the proxy and fired the deletion callback for it
PartlyDisabled ==
    /\ lastOp.op = "disable" /\ lastOp.err
    /\ ~splitServerToolName(lastOp.arg)[3]
    /\ Len(lastOp.events) = 1
    /\ lastOp.events[1][2][1] \notin mcpProxyServer \cup sseMcpProxyServer
    /\ \E i \in 1..Len(dbTools) :
          dbTools[i].server = lastOp.arg /\ dbTools[i].enabled

\* the step is a deregistration of a registered server whose delete of the tool
\* rows failed
DeleteFailed ==
    /\ lastOp'.op = "deregister"
    /\ lastOp'.arg \in DOMAIN dbServers
    /\ lastOp'.attempts = 1 /\ lastOp'.writes = 0

\* C36: when deleting a server's tool rows fails during deregistration, the
\* operation returns an error and the store, both proxies, the tool-instance
\* tracker and the groups are unchanged: no tool is removed from a proxy and no
\* deletion callback is fired.
C36_FailedDeleteChangesNothing ==
    [][DeleteFailed
        => /\ lastOp'.err
           /\ lastOp'.events = <<>>
           /\ UNCHANGED <<dbServers, dbTools, mcpProxyServer, sseMcpProxyServer,
                          toolInstances, groups, groupServers>>]_vars

\* a deregistration failed at the delete of the rows; the server's tool is still
\* exposed by a proxy, kept in the tracker and served by a group
C36_Witness ==
    /\ lastOp.op = "deregister" /\ lastOp.err
    /\ lastOp.attempts = 1 /\ lastOp.writes = 0
    /\ lastOp.arg \in DOMAIN dbServers
    /\ \E i \in 1..Len(dbTools) :
          /\ dbTools[i].server = lastOp.arg
          /\ CanonicalName(dbTools[i]) \in (mcpProxyServer \cup sseMcpProxyServer)
                                              \cap toolInstances
          /\ \E g \in DOMAIN groupServers : CanonicalName(dbTools[i]) \in groupServers[g]

(***************************************************************************)
(* Claims about the records of users and MCP clients (checked under        *)
(* SpecAccounts).                                                          *)
(***************************************************************************)
\* C38: CreateUser never creates an admin: whatever role its input carries the
\* stored user has the role "user", and no CreateUser or UpdateUser call raises
\* the number of admin users or changes the role of a user.
C38_CreateUserNeverAdmin ==
    [][authOp'.op \in {"createUser", "updateUser"}
        => /\ \A v \in users' :
                 UserNamed(users, v.username) = {} => v.role = UserRoleUser
           /\ Cardinality(Admins(users')) <= Cardinality(Admins(users))
           /\ \A u \in users, v \in users' : u.username = v.username => v.role = u.role]_vars

\* CreateUser was given the role admin and has stored the user with the role user
C38_Witness ==
    /\ authOp.op = "createUser" /\ ~authOp.err
    /\ authOp.role = UserRoleAdmin
    /\ \E u \in UserNamed(users, authOp.name) : u.role = UserRoleUser
    /\ Cardinality(Admins(users)) = 1

\* the rows other than the named one are the same before and after the step
OthersUnchanged(before, after, named) ==
    /\ \A r \in before \ named : r \in after
    /\ \A r \in after : r \in before \/ \E n \in named : n \notin after

\* UpdateClient on the named client, given the token
UpdatedClientWith(token) ==
    /\ authOp'.op = "updateClient" /\ ~authOp'.err
    /\ AuthUpdateClient(ClientInput(authOp'.name, UpdateDescription, token, UpdateAllowList))

\* UpdateUser on the named user, given the token
UpdatedUserWith(token) ==
    /\ authOp'.op = "updateUser" /\ ~authOp'.err
    /\ AuthUpdateUser(UserInput(authOp'.name, authOp'.role, token))

\* C39: UpdateClient and UpdateUser change only the access token of the one
\* named record: its name, description, allow list or role and every other
\* client and user record are unchanged; after a successful update the record
\* is found under the new token and, when the token differs, no longer under
\* the old one.
C39_UpdateChangesOnlyToken ==
    [][ /\ authOp'.op = "updateClient"
            => /\ users' = users
               /\ OthersUnchanged(clients, clients', ClientNamed(clients, authOp'.name))
               /\ \A c \in ClientNamed(clients, authOp'.name) :
                     \E d \in clients' :
                         d = [c EXCEPT !.token = d.token]
               /\ Cardinality(clients') = Cardinality(clients)
        /\ authOp'.op = "updateUser"
            => /\ clients' = clients
               /\ OthersUnchanged(users, users', UserNamed(users, authOp'.name))
               /\ \A u \in UserNamed(users, authOp'.name) :
                     \E v \in users' :
                         v = [u EXCEPT !.token = v.token]
               /\ Cardinality(users') = Cardinality(users)
        /\ \A token \in AccountTokens :
              /\ UpdatedClientWith(token)
                    => \A c \in ClientNamed(clients, authOp'.name) :
                          /\ [c EXCEPT !.token = token] \in GetClientByToken(clients', token)
                          /\ c.token # token
                                => ClientNamed(GetClientByToken(clients', c.token),
                                               authOp'.name) = {}
              /\ UpdatedUserWith(token)
                    => \A u \in UserNamed(users, authOp'.name) :
                          /\ [u EXCEPT !.token = token] \in GetUserByAccessToken(users', token)
                          /\ u.token # token
                                => UserNamed(GetUserByAccessToken(users', u.token),
                                             authOp'.name) = {} ]_vars

\* UpdateClient has given a client that has a description and an allow list a
\* custom token, while another client exists
C39_Witness ==
    /\ authOp.op = "updateClient" /\ ~authOp.err
    /\ \E c \in ClientNamed(clients, authOp.name) :
          /\ c.description = <<"d">>
          /\ c.allow = << <<"a">> >>
          /\ c.token \in GoodTokens
    /\ \E d \in clients : d.name # authOp.name

\* UpdateUser has given a user other than the admin a custom token
UserTokenReplaced ==
    /\ authOp.op = "updateUser" /\ ~authOp.err
    /\ authOp.role = UserRoleAdmin
    /\ \E u \in UserNamed(users, authOp.name) : u.role = UserRoleUser /\ u.token \in GoodTokens

\* C40: a PUT request to /api/v0/users/{username} changes only the user named
\* in the path: the username of the request body cannot direct the update to
\* another user.
C40_PutUserChangesOnlyPathUser ==
    [][authOp'.op = "putUser"
        => OthersUnchanged(users, users', UserNamed(users, authOp'.name))]_vars

\* the client handler takes the name from the path: a PUT request on a client
\* changes only the client named in the path
PutClientChangesOnlyPathClient ==
    [][authOp'.op = "putClient"
        => OthersUnchanged(clients, clients', ClientNamed(clients, authOp'.name))]_vars

\* a PUT request whose body names the user of the path changes that user only
PutUserWithSameNameChangesOnlyPathUser ==
    [][(authOp'.op = "putUser" /\ authOp'.body = authOp'.name)
        => OthersUnchanged(users, users', UserNamed(users, authOp'.name))]_vars

\* a PUT request on the path of alice has replaced the access token of the admin
AdminTokenReplacedThroughOtherPath ==
    /\ authOp.op = "putUser" /\ ~authOp.err
    /\ authOp.name = "alice" /\ authOp.body = "admin"
    /\ \E u \in UserNamed(users, "admin") : u.role = UserRoleAdmin /\ u.token \in GoodTokens

\* a PUT request on the path of one client with the name of the other in its
\* body has replaced the token of the client of the path
ClientOfPathUpdated ==
    /\ authOp.op = "putClient" /\ ~authOp.err
    /\ authOp.body # authOp.name
    /\ \E c \in ClientNamed(clients, authOp.name) : c.token \in GoodTokens
    /\ \E c \in ClientNamed(clients, authOp.body) : c.token \notin GoodTokens

====
